---- MODULE Spec2Model ----
(***************************************************************************)
(* MyFitnessGenie: the MCP server (tool dispatcher), the Strava token      *)
(* manager and the coaching tools, as a state machine.                     *)
(*                                                                         *)
(* A tool invocation occupies a slot.  A Strava tool suspends at its       *)
(* network awaits (validation probe, token refresh, data request); every   *)
(* step between two awaits is one action.  A coaching tool has no I/O and  *)
(* runs to completion in one action.                                       *)
(*                                                                         *)
(* Strings that the code builds by interpolation are built with \o.        *)
(* An optional argument (a JavaScript value that may be undefined) is a    *)
(* sequence of length 0 (undefined) or 1 (the value).                      *)
(***************************************************************************)
EXTENDS Integers, Sequences, FiniteSets, TLC

VARIABLES
    accessToken,      \* StravaTokenManager.accessToken
    refreshToken,     \* StravaTokenManager.refreshToken
    expiresAt,        \* StravaTokenManager.expiresAt (ms)
    envFile,          \* the .env file: [exists, lines]
    issued,           \* number of token pairs the OAuth endpoint has issued
    inv,              \* the tool invocations, by slot
    userProfile,      \* rag-coaching-tools.ts: userProfile (optional)
    progressHistory,  \* rag-coaching-tools.ts: progressHistory
    today,            \* the calendar day the clock shows
    nowMs,            \* Date.now()
    documents,        \* EnhancedRAGSystem.documents (dynamic store)
    staticDocuments,  \* TrueRAGSystem.documents (static store)
    call              \* the last evaluation of a function without state:
                      \* [fn, args, result]

tokenVars == <<accessToken, refreshToken, expiresAt, envFile, issued>>
coachVars == <<userProfile, progressHistory, documents, staticDocuments>>
clockVars == <<today, nowMs>>
pureVars == <<call>>
vars == <<accessToken, refreshToken, expiresAt, envFile, issued, inv,
          userProfile, progressHistory, today, nowMs, documents, staticDocuments,
          call>>

(***************************************************************************)
(* Bounds of the model.                                                    *)
(***************************************************************************)
MaxIssue == 2     \* token pairs the endpoint issues in one run
MaxDay == 2       \* calendar days the clock runs through
MaxMs == 1        \* millisecond ticks of Date.now()
MaxDocs == 1      \* documents added to the dynamic store
MaxAdviceDay == 3 \* calendar days in the runs that ask for advice

Slots == {1, 2}

(***************************************************************************)
(* JavaScript values.                                                      *)
(***************************************************************************)
Undefined == << >>
Some(v) == <<v>>
IsDefined(o) == o # << >>
\* if (x): undefined and 0 are falsy (the optional values here are numbers)
Truthy(o) == o # << >> /\ o[1] # 0
\* x || d
OrElse(o, d) == IF Truthy(o) THEN o[1] ELSE d

Min(a, b) == IF a <= b THEN a ELSE b

(***************************************************************************)
(* HTTP outcomes of an axios call: a 2xx response, an error with a         *)
(* response (status, body errors) or an error without one (network,        *)
(* timeout).                                                               *)
(***************************************************************************)
HttpOk == [ok |-> TRUE, hasResponse |-> TRUE, status |-> 200,
           hasErrors |-> FALSE, errors |-> << >>, message |-> ""]
HttpError(s) == [ok |-> FALSE, hasResponse |-> TRUE, status |-> s,
                 hasErrors |-> FALSE, errors |-> << >>,
                 message |-> "Request failed with status code " \o ToString(s)]
HttpErrorWith(s, errs) == [HttpError(s) EXCEPT !.hasErrors = TRUE, !.errors = errs]
NetworkError == [ok |-> FALSE, hasResponse |-> FALSE, status |-> 0,
                 hasErrors |-> FALSE, errors |-> << >>, message |-> "Network Error"]
TimeoutError == [NetworkError EXCEPT !.message = "timeout of 5000ms exceeded"]

ProbeOutcomes == {HttpOk, HttpError(401), HttpError(403), HttpError(500),
                  NetworkError, TimeoutError}

Fault(code, field) == [code |-> code, field |-> field]
RefreshFailures ==
    { HttpErrorWith(400, <<Fault("invalid", "refresh_token")>>),
      HttpErrorWith(400, <<Fault("invalid", "client_id"),
                           Fault("invalid", "refresh_token")>>),
      HttpErrorWith(400, <<Fault("invalid", "client_id")>>),
      HttpErrorWith(400, <<Fault("missing", "refresh_token")>>),
      HttpErrorWith(400, << >>),
      HttpError(400),
      HttpErrorWith(401, <<Fault("invalid", "refresh_token")>>),
      HttpError(500),
      NetworkError }

DataOutcomes == {HttpOk, HttpError(401), HttpError(500), NetworkError}

(***************************************************************************)
(* Tokens.  The pair in force at start is ("at0", "rt0"); the n-th pair    *)
(* the endpoint issues is ("at<n>", "rt<n>").                              *)
(***************************************************************************)
IssuedPair(n) == [access_token |-> "at" \o ToString(n),
                  refresh_token |-> "rt" \o ToString(n),
                  expires_at |-> n]
NoPair == [access_token |-> "", refresh_token |-> "", expires_at |-> 0]

(***************************************************************************)
(* The .env file.  A line reads  pre ++ key ++ "=" ++ val ; a line that    *)
(* holds no token key has key "OTHER".  pre is "" for a live setting and   *)
(* "# " for a setting that was commented out.                              *)
(***************************************************************************)
AccessKey == "STRAVA_ACCESS_TOKEN"
RefreshKey == "STRAVA_REFRESH_TOKEN"
Line(pre, key, val) == [pre |-> pre, key |-> key, val |-> val]
ClientLine == Line("", "STRAVA_CLIENT_ID", "12345")
File(lines) == [exists |-> TRUE, lines |-> lines]
NoFile == [exists |-> FALSE, lines |-> << >>]

EnvFiles ==
    { NoFile,
      File(<<ClientLine>>),
      File(<<ClientLine, Line("", AccessKey, "at0"), Line("", RefreshKey, "rt0")>>),
      File(<<Line("", AccessKey, "at0"), Line("", RefreshKey, "rt0"),
             Line("# ", AccessKey, "old"), Line("# ", RefreshKey, "old")>>),
      File(<<Line("# ", AccessKey, "old"), Line("", AccessKey, "at0"),
             Line("", RefreshKey, "rt0")>>) }

\* String.prototype.replace(/KEY=.*/, "KEY=" + val): the regular expression is
\* not global and not anchored, so it rewrites the first place in the file
\* where KEY= occurs, from there to the end of that line.
ReplaceFirst(lines, key, val) ==
    LET hits == {i \in DOMAIN lines : lines[i].key = key}
    IN  IF hits = {} THEN lines
        ELSE LET first == CHOOSE i \in hits : \A j \in hits : i <= j
             IN  [lines EXCEPT ![first].val = val]

\* StravaTokenManager.updateEnvFile (the fs calls are taken not to throw)
updateEnvFile(file, newAccessToken, newRefreshToken) ==
    IF ~file.exists THEN file
    ELSE [file EXCEPT !.lines =
            ReplaceFirst(ReplaceFirst(file.lines, AccessKey, newAccessToken),
                         RefreshKey, newRefreshToken)]

(***************************************************************************)
(* StravaTokenManager                                                      *)
(***************************************************************************)
ReauthorizeMessage ==
    "Refresh token is invalid. You need to re-authorize the app by running: npm run build && node dist/auth-setup.js"
RefreshFailedMessage == "Token refresh failed. You may need to re-authorize the app."

\* variant: the token in force before the refresh is returned and kept
staleAccessToken(current, tokens) == current

\* refreshAccessToken, lines 140 and 149: this.accessToken = tokens.access_token
\* ... return this.accessToken
refreshedAccessToken(current, tokens) == tokens.access_token

\* variant: a 401 is treated like any other probe error
isTokenValidIgnoring401(o) == TRUE

\* variant: only an answered probe counts as valid (fail closed)
isTokenValidFailClosed(o) == o.ok

\* isTokenValid: the catch block of the validation probe
isTokenValid(o) ==
    IF o.ok THEN TRUE
    ELSE IF o.hasResponse /\ o.status = 401 THEN FALSE
    ELSE TRUE

\* variant: the status of the response is not looked at
refreshErrorMessageAnyStatus(o) ==
    IF \E i \in DOMAIN o.errors :
            o.errors[i].code = "invalid" /\ o.errors[i].field = "refresh_token"
    THEN ReauthorizeMessage
    ELSE RefreshFailedMessage

\* refreshAccessToken: the catch block; the message of the Error it throws.
\* (data.errors is truthy whenever it is present: an empty array is truthy)
refreshErrorMessage(o) ==
    IF o.hasResponse /\ o.status = 400 /\ o.hasErrors
       /\ \E i \in DOMAIN o.errors :
             o.errors[i].code = "invalid" /\ o.errors[i].field = "refresh_token"
    THEN ReauthorizeMessage
    ELSE RefreshFailedMessage

(***************************************************************************)
(* Requests on the wire.  token is the bearer token of a GET and the       *)
(* refresh_token of the POST to the token endpoint.                        *)
(***************************************************************************)
Request(kind, url, token, perPage) ==
    [kind |-> kind, url |-> url, token |-> token, per_page |-> perPage]
ProbeRequest(token) == Request("probe", "/api/v3/athlete", token, 0)
RefreshRequest(token) == Request("refresh", "/oauth/token", token, 0)

\* the tools the ListToolsRequestSchema handler declares, in its order
ToolCatalog ==
    <<"get_recent_activities", "get_athlete_profile", "analyze_training_load",
      "get_activity_details", "setup_user_profile", "log_progress",
      "get_coaching_advice", "add_website_knowledge", "add_file_knowledge",
      "search_knowledge", "get_rag_stats">>

\* variant: the dispatcher has no case for get_rag_stats
CoachToolsWithoutStats ==
    {"setup_user_profile", "log_progress", "get_coaching_advice",
     "add_website_knowledge", "add_file_knowledge", "search_knowledge"}

\* the case labels of the dispatcher's switch
StravaTools == {"get_recent_activities", "get_athlete_profile",
                "analyze_training_load", "get_activity_details"}
CoachTools == {"setup_user_profile", "log_progress", "get_coaching_advice",
               "add_website_knowledge", "add_file_knowledge",
               "search_knowledge", "get_rag_stats"}

\* the axios.get each Strava method sends once it holds a token
DataRequest(tool, arg, token) ==
    CASE tool = "get_recent_activities" ->
            Request("data", "/api/v3/athlete/activities", token, Min(arg, 30))
      [] tool = "get_athlete_profile" ->
            Request("data", "/api/v3/athlete", token, 0)
      [] tool = "analyze_training_load" ->
            Request("data", "/api/v3/athlete/activities", token, 50)
      [] OTHER ->
            Request("data", "/api/v3/activities/" \o ToString(arg), token, 0)

\* the text a Strava method returns for a 2xx data response
StravaResultText(tool, arg) ==
    CASE tool = "get_recent_activities" -> "Found recent activities"
      [] tool = "get_athlete_profile" -> "Athlete Profile"
      [] tool = "analyze_training_load" ->
            "Training Load Analysis (Last " \o ToString(arg) \o " days)"
      [] OTHER -> "Detailed Activity Information"

(***************************************************************************)
(* The tool dispatcher (CallToolRequestSchema handler).                    *)
(***************************************************************************)
Return(text) == [kind |-> "return", text |-> text]
Throw(message) == [kind |-> "throw", text |-> message]
NoOutcome == [kind |-> "none", text |-> ""]

TextResponse(t) == [content |-> <<[type |-> "text", text |-> t]>>]
NoResponse == [content |-> << >>]

\* variant: no catch; a thrown error leaves the handler
CallToolHandlerNoCatch(outcome) ==
    IF outcome.kind = "throw"
    THEN [escaped |-> TRUE, response |-> NoResponse]
    ELSE [escaped |-> FALSE, response |-> TextResponse(outcome.text)]

\* try { switch (name) ... } catch (error) { return "Error: " + error.message }
CallToolHandler(outcome) ==
    IF outcome.kind = "throw"
    THEN [escaped |-> FALSE, response |-> TextResponse("Error: " \o outcome.text)]
    ELSE [escaped |-> FALSE, response |-> TextResponse(outcome.text)]

\* An invocation: where it is suspended (pc), the tool and its resolved
\* argument (arg; given is the argument as received), the requests it has
\* sent (net), the answers it has received (probe, refresh, data), the access
\* token cached when it began, the pair a refresh gave it, the token
\* getValidAccessToken returned, the index logProgress found (existingIndex),
\* the window getCoachingAdvice sliced (recentData) and what it computed from
\* it (analysis), the number of chunks an add was told it stored (chunks), what the tool method did (outcome) and what the handler
\* gave the transport.
IdleInv == [pc |-> "idle", tool |-> "", arg |-> 0, given |-> << >>, net |-> << >>,
            cached |-> "", probe |-> << >>, refresh |-> << >>, data |-> << >>,
            pair |-> NoPair, returned |-> << >>, existingIndex |-> 0,
            recentData |-> << >>, analysis |-> << >>, chunks |-> << >>,
            outcome |-> NoOutcome, escaped |-> FALSE, response |-> NoResponse]

\* a slot is free when no invocation is suspended in it
Free(p) == inv[p].pc \in {"idle", "done"}

NewInv(tool, arg) == [IdleInv EXCEPT !.tool = tool, !.arg = arg, !.cached = accessToken]

\* the invocation ends: the handler returns its response to the transport
Finish(rec, outcome) ==
    LET h == CallToolHandler(outcome)
    IN  [rec EXCEPT !.pc = "done", !.outcome = outcome,
                    !.escaped = h.escaped, !.response = h.response]

\* getValidAccessToken up to its first await: probe a cached token, or go
\* straight to the refresh when none is cached
BeginStrava(p, tool, arg, given) ==
    LET rec == [NewInv(tool, arg) EXCEPT !.given = given]
    IN  /\ inv' = [inv EXCEPT ![p] =
                IF accessToken # ""
                THEN [rec EXCEPT !.pc = "probe",
                                 !.net = <<ProbeRequest(accessToken)>>]
                ELSE [rec EXCEPT !.pc = "refresh",
                                 !.net = <<RefreshRequest(refreshToken)>>]]
        /\ UNCHANGED <<pureVars, tokenVars, coachVars, clockVars>>

\* case "get_recent_activities": getRecentActivities(args?.count || 10)
CallGetRecentActivities(p, count) ==
    /\ Free(p)
    /\ BeginStrava(p, "get_recent_activities", OrElse(count, 10), count)

\* case "get_athlete_profile"
CallGetAthleteProfile(p) ==
    /\ Free(p)
    /\ BeginStrava(p, "get_athlete_profile", 0, Undefined)

\* case "analyze_training_load": analyzeTrainingLoad(args?.days || 7)
CallAnalyzeTrainingLoad(p, days) ==
    /\ Free(p)
    /\ BeginStrava(p, "analyze_training_load", OrElse(days, 7), days)

\* variant: the id is not checked
CallGetActivityDetailsUnchecked(p, activityId) ==
    /\ Free(p)
    /\ BeginStrava(p, "get_activity_details", OrElse(activityId, 0), activityId)

\* case "get_activity_details": the id is checked before anything is sent
CallGetActivityDetails(p, activityId) ==
    /\ Free(p)
    /\ IF ~Truthy(activityId)
       THEN /\ inv' = [inv EXCEPT ![p] =
                    Finish([NewInv("get_activity_details", 0) EXCEPT !.given = activityId],
                           Throw("activity_id is required"))]
            /\ UNCHANGED <<pureVars, tokenVars, coachVars, clockVars>>
       ELSE BeginStrava(p, "get_activity_details", activityId[1], activityId)

\* default: throw new Error(`Unknown tool: ${name}`)
CallUnknownTool(p, name) ==
    /\ Free(p)
    /\ name \notin StravaTools \cup CoachTools
    /\ inv' = [inv EXCEPT ![p] = Finish(NewInv(name, 0), Throw("Unknown tool: " \o name))]
    /\ UNCHANGED <<pureVars, tokenVars, coachVars, clockVars>>

\* the validation probe is answered: isTokenValid returns and
\* getValidAccessToken either returns this.accessToken (the method then sends
\* its data request) or starts the refresh
ProbeResponse(p, o) ==
    /\ inv[p].pc = "probe"
    /\ LET rec == [inv[p] EXCEPT !.probe = <<o>>]
       IN  inv' = [inv EXCEPT ![p] =
                IF isTokenValid(o)
                THEN [rec EXCEPT !.pc = "data", !.returned = <<accessToken>>,
                        !.net = Append(@, DataRequest(rec.tool, rec.arg, accessToken))]
                ELSE [rec EXCEPT !.pc = "refresh",
                        !.net = Append(@, RefreshRequest(refreshToken))]]
    /\ UNCHANGED <<pureVars, tokenVars, coachVars, clockVars>>

\* the token endpoint answers 2xx with a new pair: refreshAccessToken stores
\* it, rewrites the .env file and returns this.accessToken; the method sends
\* its data request
RefreshSuccess(p) ==
    /\ inv[p].pc = "refresh"
    /\ issued < MaxIssue
    /\ LET tokens == IssuedPair(issued + 1)
           token == refreshedAccessToken(accessToken, tokens)
       IN  /\ issued' = issued + 1
           /\ accessToken' = token
           /\ refreshToken' = tokens.refresh_token
           /\ expiresAt' = tokens.expires_at * 1000
           /\ envFile' = updateEnvFile(envFile, tokens.access_token, tokens.refresh_token)
           /\ inv' = [inv EXCEPT ![p] =
                    [@ EXCEPT !.pc = "data", !.refresh = <<HttpOk>>, !.pair = tokens,
                        !.returned = <<token>>,
                        !.net = Append(@, DataRequest(inv[p].tool, inv[p].arg, token))]]
    /\ UNCHANGED <<pureVars, coachVars, clockVars>>

\* variant: the catch block forgets the access token that was rejected
RefreshFailureForgetting(p, o) ==
    /\ inv[p].pc = "refresh"
    /\ inv' = [inv EXCEPT ![p] =
            Finish([inv[p] EXCEPT !.refresh = <<o>>], Throw(refreshErrorMessage(o)))]
    /\ accessToken' = ""
    /\ UNCHANGED <<pureVars, refreshToken, expiresAt, envFile, issued, coachVars, clockVars>>

\* the token endpoint request fails: refreshAccessToken throws before it has
\* assigned anything, the dispatcher's catch turns the error into the response
RefreshFailure(p, o) ==
    /\ inv[p].pc = "refresh"
    /\ inv' = [inv EXCEPT ![p] =
            Finish([inv[p] EXCEPT !.refresh = <<o>>], Throw(refreshErrorMessage(o)))]
    /\ UNCHANGED <<pureVars, tokenVars, coachVars, clockVars>>

\* the data request is answered
DataResponse(p, o) ==
    /\ inv[p].pc = "data"
    /\ inv' = [inv EXCEPT ![p] =
            Finish([inv[p] EXCEPT !.data = <<o>>],
                   IF o.ok THEN Return(StravaResultText(inv[p].tool, inv[p].arg))
                   ELSE Throw(o.message))]
    /\ UNCHANGED <<pureVars, tokenVars, coachVars, clockVars>>

(***************************************************************************)
(* User profile and calorie model (types/user-profile.ts).  Weights,       *)
(* heights and ages are whole numbers; the formulas are evaluated exactly, *)
(* BMR in units of 10^-5 kcal (products are split to stay in 32 bits).     *)
(***************************************************************************)
\* Math.round(n / d) for d > 0: the nearest integer, a half rounded up
RoundDiv(n, d) == (2 * n + d) \div (2 * d)

\* variant: the female constant is used for everyone
calculateBMRNoGender(weight, height, age, gender) ==
    453592 * weight + 1587500 * height - 500000 * age - 16100000

\* SimpleCalculator.calculateBMR, times 10^5:
\* 10 * (weight * 0.453592) + 6.25 * (height * 2.54) - 5 * age, + 5 or - 161
calculateBMR(weight, height, age, gender) ==
    LET baseRate == 453592 * weight + 1587500 * height - 500000 * age
    IN  IF gender = "male" THEN baseRate + 500000 ELSE baseRate - 16100000

\* the activity multiplier, times 1000
Multiplier(activityLevel) ==
    CASE activityLevel = "sedentary" -> 1200
      [] activityLevel = "lightly_active" -> 1375
      [] activityLevel = "moderately_active" -> 1550
      [] activityLevel = "very_active" -> 1725
      [] OTHER -> 1200

\* SimpleCalculator.calculateTDEE: Math.round(bmr * multiplier), for bmr >= 0
\* in units of 10^-5
calculateTDEE(bmr, activityLevel) ==
    LET m == Multiplier(activityLevel)
        whole == (bmr \div 100000) * m          \* thousandths of a kcal
        part == (bmr % 100000) * m              \* 10^-8 kcal
    IN  (whole \div 1000)
        + RoundDiv((whole % 1000) * 100000 + part, 100000000)

\* variant: every goal gets the deficit
calculateCalorieTargetAlwaysDeficit(tdee, goal) == tdee - 500

\* SimpleCalculator.calculateCalorieTarget
calculateCalorieTarget(tdee, goal) ==
    IF goal = "lose_weight" THEN tdee - 500
    ELSE IF goal = "gain_muscle" THEN tdee + 300
    ELSE tdee

\* SimpleCalculator.calculateProteinTarget
calculateProteinTarget(weight, goal) ==
    IF goal \in {"lose_weight", "gain_muscle"} THEN weight
    ELSE RoundDiv(8 * weight, 10)

\* createUserProfile
createUserProfile(basicInfo) ==
    LET bmr == calculateBMR(basicInfo.weight, basicInfo.height,
                            basicInfo.age, basicInfo.gender)
        tdee == calculateTDEE(bmr, basicInfo.activityLevel)
    IN  [age |-> basicInfo.age, gender |-> basicInfo.gender,
         weight |-> basicInfo.weight, height |-> basicInfo.height,
         goal |-> basicInfo.goal, activityLevel |-> basicInfo.activityLevel,
         dailyCalories |-> calculateCalorieTarget(tdee, basicInfo.goal),
         proteinTarget |-> calculateProteinTarget(basicInfo.weight, basicInfo.goal)]

(***************************************************************************)
(* Semantic search (rag/vector-rag-system.ts, dynamic store of index.ts).  *)
(* A text is given by the keywords its words include; an embedding is the  *)
(* set of the dimensions that are 1 (all others are 0).                    *)
(***************************************************************************)
weightKeywords == <<"weight", "loss", "plateau", "deficit", "metabolism">>
proteinKeywords == <<"protein", "muscle", "amino", "leucine", "synthesis">>
exerciseKeywords == <<"exercise", "cardio", "zone", "heart", "rate", "training">>
sleepKeywords == <<"sleep", "recovery", "hormone", "leptin", "ghrelin">>
fitnessKeywords ==
    <<"fitness", "exercise", "weight", "muscle", "cardio", "nutrition", "protein">>

\* keywords.forEach((keyword, i) => if (...) embedding[offset + i] = 1)
Dimensions(text, keywords, offset) ==
    {offset + i - 1 : i \in {j \in DOMAIN keywords : keywords[j] \in text}}

\* getMockEmbedding of vector-rag-system.ts (static store)
getMockEmbedding(text) ==
    Dimensions(text, weightKeywords, 0) \cup Dimensions(text, proteinKeywords, 10)
    \cup Dimensions(text, exerciseKeywords, 20) \cup Dimensions(text, sleepKeywords, 30)

\* getMockEmbedding of the dynamic store
getMockEmbeddingDynamic(text) == Dimensions(text, fitnessKeywords, 0)

\* dotProduct / (mag1 * mag2), kept as the dot product and the two squared
\* magnitudes: 0 / 0 is NaN (the dot product is 0 when a magnitude is)
Quotient(dotProduct, mag1, mag2) ==
    [dotProduct |-> dotProduct, mag1 |-> mag1, mag2 |-> mag2,
     nan |-> mag1 * mag2 = 0]

\* variant: the quotient is returned as it is
Unguarded(x) == x

\* x || 0: NaN and 0 are falsy
OrZero(x) ==
    IF x.nan \/ x.dotProduct = 0
    THEN [dotProduct |-> 0, mag1 |-> 1, mag2 |-> 1, nan |-> FALSE]
    ELSE x

\* cosineSimilarity: dotProduct / (mag1 * mag2) || 0
cosineSimilarity(vec1, vec2) ==
    OrZero(Quotient(Cardinality(vec1 \cap vec2), Cardinality(vec1), Cardinality(vec2)))

\* the square of a similarity as a fraction; the comparator of the sort
\* reads a score as (relevance_score || 0)
SimilaritySquared(score) ==
    IF score.mag1 * score.mag2 = 0 THEN [num |-> 0, den |-> 1]
    ELSE [num |-> score.dotProduct * score.dotProduct, den |-> score.mag1 * score.mag2]

\* a's similarity is at least b's  (similarities are never negative)
AtLeast(a, b) ==
    SimilaritySquared(a).num * SimilaritySquared(b).den
        >= SimilaritySquared(b).num * SimilaritySquared(a).den

Chunk(id, text) == [id |-> id, text |-> text]

\* scoredDocs: every document with its relevance_score
Scored(docs, queryEmbedding, embeddings) ==
    [i \in DOMAIN docs |->
        [id |-> docs[i].id,
         relevance_score |-> cosineSimilarity(queryEmbedding, embeddings[i])]]

\* variant: the scored documents are left in the order of the store
Unsorted(scoredDocs) == scoredDocs

RECURSIVE SortByRelevance(_)
\* .sort((a, b) => (b.relevance_score || 0) - (a.relevance_score || 0)):
\* descending, documents of equal score stay in their order
SortByRelevance(scoredDocs) ==
    IF scoredDocs = << >> THEN << >>
    ELSE LET n == Len(scoredDocs)
             last == scoredDocs[n]
             sorted == SortByRelevance(SubSeq(scoredDocs, 1, n - 1))
             ahead == {i \in DOMAIN sorted :
                        AtLeast(sorted[i].relevance_score, last.relevance_score)}
             k == Cardinality(ahead)
         IN  SubSeq(sorted, 1, k) \o <<last>> \o SubSeq(sorted, k + 1, n - 1)

\* .slice(0, topK), topK >= 0
SliceTop(docs, topK) == SubSeq(docs, 1, Min(topK, Len(docs)))

\* TrueRAGSystem.searchSimilarDocuments(query, topK = 3)
searchSimilarDocuments(docs, query, topK) ==
    SliceTop(SortByRelevance(Scored(docs, getMockEmbedding(query),
                                    [i \in DOMAIN docs |-> getMockEmbedding(docs[i].text)])),
             IF IsDefined(topK) THEN topK[1] ELSE 3)

\* EnhancedRAGSystem.searchEnhancedKnowledge(query, topK = 5)
searchEnhancedKnowledge(docs, query, topK) ==
    IF Len(docs) = 0 THEN << >>
    ELSE SliceTop(SortByRelevance(Scored(docs, getMockEmbeddingDynamic(query),
                        [i \in DOMAIN docs |-> getMockEmbeddingDynamic(docs[i].text)])),
                  IF IsDefined(topK) THEN topK[1] ELSE 5)

\* the fitness keywords a one-word text includes (the URLs and paths used
\* here include none; a category or a topic is one word)
Mentions(word) == {fitnessKeywords[i] : i \in {j \in DOMAIN fitnessKeywords :
                                                fitnessKeywords[j] = word}}

RECURSIVE SortedInPlace(_, _)
\* variant: the sort is applied to the stored array itself
SortedInPlace(docs, queryEmbedding) ==
    IF docs = << >> THEN << >>
    ELSE LET n == Len(docs)
             last == docs[n]
             sorted == SortedInPlace(SubSeq(docs, 1, n - 1), queryEmbedding)
             ahead == {i \in DOMAIN sorted :
                        AtLeast(cosineSimilarity(queryEmbedding, sorted[i].embedding),
                                cosineSimilarity(queryEmbedding, last.embedding))}
             k == Cardinality(ahead)
         IN  SubSeq(sorted, 1, k) \o <<last>> \o SubSeq(sorted, k + 1, n - 1)

\* searchEnhancedKnowledge: this.documents after the call.  this.documents.map
\* builds a new array of new objects; the scores are written to and the sort
\* reorders that array.
DocumentsAfterSearch(docs, queryEmbedding) == docs

(***************************************************************************)
(* Coaching tools (tools/rag-coaching-tools.ts).  args.defined is FALSE    *)
(* when the request carries no arguments object.                           *)
(***************************************************************************)
NoArgs == [defined |-> FALSE]
TypeErrorMessage(field) ==
    "Cannot read properties of undefined (reading '" \o field \o "')"

SetupFirstMessage == "Please set up your profile first."
SearchSetupFirstMessage ==
    "Please set up your profile first for personalized knowledge search."

SetupArgs(age, gender, weight, height, goal, activityLevel) ==
    [defined |-> TRUE, age |-> age, gender |-> gender, weight |-> weight,
     height |-> height, goal |-> goal, activityLevel |-> activityLevel]
LogArgs(weight, workoutsToday, calories) ==
    [defined |-> TRUE, weight |-> weight, workoutsToday |-> workoutsToday,
     calories |-> calories]

\* variant: a missing profile is raised as an error
MissingProfileThrown(message) == Throw(message)

\* if (!userProfile) return { content: [{ type: "text", text: message }] }
MissingProfile(message) == Return(message)

\* the outcome of a tool that completes without awaiting I/O
Complete(p, tool, outcome) ==
    inv' = [inv EXCEPT ![p] = Finish(NewInv(tool, 0), outcome)]

\* case "setup_user_profile": TrueRAGCoachingTools.setupUserProfile
CallSetupUserProfile(p, args) ==
    /\ Free(p)
    /\ IF ~args.defined
       THEN /\ Complete(p, "setup_user_profile", Throw(TypeErrorMessage("weight")))
            /\ UNCHANGED userProfile
       ELSE /\ userProfile' = <<createUserProfile(args)>>
            /\ Complete(p, "setup_user_profile",
                        Return("True RAG-Powered Profile Created! Calories: "
                               \o ToString(userProfile'[1].dailyCalories)))
    /\ UNCHANGED <<pureVars, tokenVars, clockVars, progressHistory, documents, staticDocuments>>

\* progressHistory.findIndex(p => p.date === today): 0 when there is none
findIndex(history, date) ==
    LET hits == {i \in DOMAIN history : history[i].date = date}
    IN  IF hits = {} THEN 0 ELSE CHOOSE i \in hits : \A j \in hits : i <= j

\* logProgress: the branch that updates today's entry
UpdateEntry(entry, args) ==
    [entry EXCEPT
        !.weight = IF Truthy(args.weight) THEN args.weight[1] ELSE @,
        !.workouts = IF Truthy(args.workoutsToday) THEN args.workoutsToday[1] ELSE @,
        !.calories = IF Truthy(args.calories) THEN args.calories ELSE @]

\* variant: a missing weight defaults to the last logged weight
NewEntryLastLogged(date, args, profile) ==
    [date |-> date,
     weight |-> OrElse(args.weight,
                       IF progressHistory = << >> THEN profile.weight
                       ELSE progressHistory[Len(progressHistory)].weight),
     workouts |-> OrElse(args.workoutsToday, 0),
     calories |-> args.calories]

\* logProgress: the entry pushed for a date that has none
NewEntry(date, args, profile) ==
    [date |-> date,
     weight |-> OrElse(args.weight, profile.weight),
     workouts |-> OrElse(args.workoutsToday, 0),
     calories |-> args.calories]

\* variant: every log is pushed as a new entry
LoggedHistoryAlwaysPush(history, date, args, profile) ==
    Append(history, NewEntry(date, args, profile))

\* logProgress: the progress list after the call
LoggedHistory(history, date, args, profile) ==
    LET existingIndex == findIndex(history, date)
    IN  IF existingIndex >= 1
        THEN [history EXCEPT ![existingIndex] = UpdateEntry(@, args)]
        ELSE Append(history, NewEntry(date, args, profile))

\* case "log_progress": TrueRAGCoachingTools.logProgress
CallLogProgress(p, args) ==
    /\ Free(p)
    /\ IF userProfile = << >>
       THEN /\ Complete(p, "log_progress", MissingProfile(SetupFirstMessage))
            /\ UNCHANGED progressHistory
       ELSE IF ~args.defined
       THEN /\ Complete(p, "log_progress", Throw(TypeErrorMessage("weight")))
            /\ UNCHANGED progressHistory
       ELSE /\ progressHistory' =
                    LoggedHistory(progressHistory, today, args, userProfile[1])
            /\ inv' = [inv EXCEPT ![p] =
                    Finish([NewInv("log_progress", 0) EXCEPT
                                !.existingIndex = findIndex(progressHistory, today)],
                           Return("Progress Logged with Enhanced RAG"))]
    /\ UNCHANGED <<pureVars, tokenVars, clockVars, userProfile, documents, staticDocuments>>

\* variant: the window is taken from the front of the list
SliceFirst(s, n) == SubSeq(s, 1, Min(n, Len(s)))

\* Array.prototype.slice(-n), n > 0
SliceLast(s, n) == SubSeq(s, Len(s) - Min(n, Len(s)) + 1, Len(s))

RECURSIVE SumWorkouts(_)
SumWorkouts(s) == IF s = << >> THEN 0 ELSE s[1].workouts + SumWorkouts(Tail(s))

\* variant: low adherence is looked at before a rapid loss
SituationAdherenceFirst(recentData) ==
    LET n == Len(recentData)
        weightChange == recentData[n].weight - recentData[1].weight
        totalWorkouts == SumWorkouts(recentData)
    IN  IF 35 * weightChange > -n /\ 10 * totalWorkouts >= 7 * n
        THEN "plateau_with_exercise_adherence"
        ELSE IF 2 * totalWorkouts < n THEN "low_adherence"
        ELSE IF 14 * weightChange < -5 * n THEN "rapid_weight_loss"
        ELSE "steady_progress"

\* getCoachingAdvice: the situation chosen for a window of two or more
\* entries; weeklyChange = (last - first) / n * 7, adherence = workouts / n
Situation(recentData) ==
    LET n == Len(recentData)
        weightChange == recentData[n].weight - recentData[1].weight
        totalWorkouts == SumWorkouts(recentData)
    IN  IF 35 * weightChange > -n /\ 10 * totalWorkouts >= 7 * n
        THEN "plateau_with_exercise_adherence"
        ELSE IF 14 * weightChange < -5 * n THEN "rapid_weight_loss"
        ELSE IF 2 * totalWorkouts < n THEN "low_adherence"
        ELSE "steady_progress"

\* getCoachingAdvice: what it computes from a window of two or more entries
Analysis(recentData) ==
    [days |-> Len(recentData),
     weightChange |-> recentData[Len(recentData)].weight - recentData[1].weight,
     totalWorkouts |-> SumWorkouts(recentData)]

NeedMoreDataText == "RAG-Powered Beginner Guidance: I need more data"

\* getCoachingAdvice: the fitness keywords the words of ragQuery include
RagQueryKeywords(situation) ==
    CASE situation = "plateau_with_exercise_adherence" -> {"weight", "exercise"}
      [] situation = "rapid_weight_loss" -> {"weight"}
      [] situation = "low_adherence" -> {"exercise"}
      [] OTHER -> {}

\* case "get_coaching_advice": TrueRAGCoachingTools.getCoachingAdvice
CallGetCoachingAdvice(p, args) ==
    /\ Free(p)
    /\ IF userProfile = << >>
       THEN Complete(p, "get_coaching_advice", MissingProfile(SetupFirstMessage))
       ELSE IF ~args.defined
       THEN Complete(p, "get_coaching_advice", Throw(TypeErrorMessage("days")))
       ELSE LET recentData == SliceLast(progressHistory, OrElse(args.days, 7))
                rec == [NewInv("get_coaching_advice", 0) EXCEPT
                            !.given = args.days, !.recentData = recentData]
            IN  IF Len(recentData) < 2
                THEN inv' = [inv EXCEPT ![p] = Finish(rec, Return(NeedMoreDataText))]
                ELSE inv' = [inv EXCEPT ![p] =
                        Finish([rec EXCEPT !.analysis = <<Analysis(recentData)>>],
                               Return("Enhanced RAG Personal Coaching Analysis: "
                                      \o Situation(recentData)))]
    \* enhancedRAG.searchEnhancedKnowledge(ragQuery, 2)
    /\ documents' =
            IF userProfile # << >> /\ args.defined
               /\ Len(SliceLast(progressHistory, OrElse(args.days, 7))) >= 2
            THEN DocumentsAfterSearch(documents,
                    getMockEmbeddingDynamic(RagQueryKeywords(
                        Situation(SliceLast(progressHistory, OrElse(args.days, 7))))))
            ELSE documents
    /\ UNCHANGED <<pureVars, tokenVars, clockVars, userProfile, progressHistory,
                   staticDocuments>>

\* case "search_knowledge": TrueRAGCoachingTools.searchKnowledge
CallSearchKnowledge(p, args) ==
    /\ Free(p)
    /\ IF userProfile = << >>
       THEN Complete(p, "search_knowledge", MissingProfile(SearchSetupFirstMessage))
       ELSE IF ~args.defined
       THEN Complete(p, "search_knowledge", Throw(TypeErrorMessage("topic")))
       ELSE Complete(p, "search_knowledge",
                     Return("Complete Knowledge Search: " \o args.topic))
    \* enhancedRAG.searchEnhancedKnowledge(args.topic, 3)
    /\ documents' =
            IF userProfile # << >> /\ args.defined
            THEN DocumentsAfterSearch(documents,
                                      getMockEmbeddingDynamic(Mentions(args.topic)))
            ELSE documents
    /\ UNCHANGED <<pureVars, tokenVars, clockVars, userProfile, progressHistory,
                   staticDocuments>>

(***************************************************************************)
(* Dynamic knowledge store (EnhancedRAGSystem).  A URL is given with the   *)
(* result of parsing it: parses is FALSE when new URL(url) throws.         *)
(***************************************************************************)
Url(href, parses, hostname) == [href |-> href, parses |-> parses, hostname |-> hostname]
Path(path, basename) == [path |-> path, basename |-> basename]

Document(id, content, category, source) ==
    [id |-> id, content |-> content,
     metadata |-> [category |-> category, source |-> source]]

\* a document with  embedding: getMockEmbedding(mockContent)
Embedded(doc, text) ==
    [id |-> doc.id, content |-> doc.content, metadata |-> doc.metadata,
     embedding |-> getMockEmbeddingDynamic(text)]

\* category || 'fitness'
CategoryOrDefault(category) == IF category = "" THEN "fitness" ELSE category

\* EnhancedRAGSystem.addWebsiteKnowledge: the documents afterwards and the
\* number of chunks it reports
addWebsiteKnowledge(docs, url, category, now) ==
    IF ~url.parses THEN [documents |-> docs, chunks |-> 0]
    ELSE [documents |->
            Append(docs, Embedded(Document("web_" \o ToString(now),
                                    "Content from " \o url.href \o " about " \o category,
                                    category, "website_" \o url.hostname),
                                  Mentions(category))),
          chunks |-> 1]

\* EnhancedRAGSystem.addFileKnowledge
addFileKnowledge(docs, filePath, category, now) ==
    [documents |->
        Append(docs, Embedded(Document("file_" \o ToString(now),
                                "Content from file " \o filePath.path
                                    \o " in category " \o category,
                                category, "file_" \o filePath.basename),
                              Mentions(category))),
     chunks |-> 1]

\* the runs add at most max documents to the dynamic store
StoreHasRoom(max) == Len(documents) < max

\* case "add_website_knowledge": TrueRAGCoachingTools.addWebsiteKnowledge
CallAddWebsiteKnowledge(p, args) ==
    /\ Free(p)
    /\ IF ~args.defined
       THEN /\ Complete(p, "add_website_knowledge",
                        Return("Failed to add website knowledge Error: "
                               \o TypeErrorMessage("url")))
            /\ UNCHANGED documents
       ELSE LET r == addWebsiteKnowledge(documents, args.url,
                                         CategoryOrDefault(args.category), nowMs)
            IN  /\ documents' = r.documents
                /\ inv' = [inv EXCEPT ![p] =
                        Finish([NewInv("add_website_knowledge", 0) EXCEPT
                                    !.given = Some(args.url),
                                    !.chunks = Some(r.chunks)],
                               Return("Website Knowledge Added Successfully! Chunks Added: "
                                      \o ToString(r.chunks) \o " Total Documents: "
                                      \o ToString(Len(r.documents))))]
    /\ UNCHANGED <<pureVars, tokenVars, clockVars, userProfile, progressHistory, staticDocuments>>

\* case "add_file_knowledge": TrueRAGCoachingTools.addFileKnowledge
CallAddFileKnowledge(p, args) ==
    /\ Free(p)
    /\ IF ~args.defined
       THEN /\ Complete(p, "add_file_knowledge",
                        Return("Failed to add file knowledge Error: "
                               \o TypeErrorMessage("filePath")))
            /\ UNCHANGED documents
       ELSE LET r == addFileKnowledge(documents, args.filePath,
                                      CategoryOrDefault(args.category), nowMs)
            IN  /\ documents' = r.documents
                /\ inv' = [inv EXCEPT ![p] =
                        Finish([NewInv("add_file_knowledge", 0) EXCEPT
                                    !.chunks = Some(r.chunks)],
                               Return("File Knowledge Added Successfully! Chunks Added: "
                                      \o ToString(r.chunks) \o " Total Documents: "
                                      \o ToString(Len(r.documents))))]
    /\ UNCHANGED <<pureVars, tokenVars, clockVars, userProfile, progressHistory, staticDocuments>>

\* case "get_rag_stats": TrueRAGCoachingTools.getRAGStats
CallGetRAGStats(p) ==
    /\ Free(p)
    /\ Complete(p, "get_rag_stats",
                Return("Complete RAG System Analytics: Added documents: "
                       \o ToString(Len(documents))))
    /\ UNCHANGED <<pureVars, tokenVars, clockVars, coachVars>>

(***************************************************************************)
(* The clock.                                                              *)
(***************************************************************************)
\* midnight (UTC) passes, up to day max
AdvanceDay(max) ==
    /\ today < max
    /\ today' = today + 1
    /\ UNCHANGED <<pureVars, tokenVars, coachVars, inv, nowMs>>

NextDay == AdvanceDay(MaxDay)

\* a millisecond passes
NextMs ==
    /\ nowMs < MaxMs
    /\ nowMs' = nowMs + 1
    /\ UNCHANGED <<pureVars, tokenVars, coachVars, inv, today>>

(***************************************************************************)
(* Functions without state.  An evaluation is recorded in call; nothing    *)
(* else changes.                                                           *)
(***************************************************************************)
Evaluated(fn, args, result) == [fn |-> fn, args |-> args, result |-> result]

(***************************************************************************)
(* WeightLossCoach (coaching/weight-loss-coach.ts).  Weight changes are in *)
(* tenths of a pound per week.                                             *)
(***************************************************************************)
RecentProgress(averageWeightChange, workoutsCompleted, workoutsPlanned, averageCalories) ==
    [averageWeightChange |-> averageWeightChange,
     workoutsCompleted |-> workoutsCompleted,
     workoutsPlanned |-> workoutsPlanned,
     averageCalories |-> averageCalories]

Assessment(recommendation, urgency) ==
    [recommendation |-> recommendation, urgency |-> urgency]

GreatProgress ==
    Assessment("Excellent progress! Keep doing exactly what you're doing.", "low")
Stalled ==
    Assessment("Your weight loss has stalled. Time to make adjustments.", "medium")
TooFast ==
    Assessment("You're losing weight too quickly. Let's slow down for better health.", "high")
LowAdherence ==
    Assessment("Let's focus on building a sustainable workout habit first.", "high")
CaloriesTooHigh ==
    Assessment("Your workouts are great, but calories are too high for weight loss.", "medium")
NeedMoreData ==
    Assessment("I need more information to give you the best advice.", "low")

\* variant: the adherence rule is tried before the rule for a fast loss
assessProgressAdherenceFirst(profile, progress) ==
    LET completed == progress.workoutsCompleted
        planned == IF progress.workoutsPlanned > 0 THEN progress.workoutsPlanned ELSE 1
        adherent == IF progress.workoutsPlanned > 0 THEN completed ELSE 0
        loss == progress.averageWeightChange
    IN  IF loss <= -5 /\ loss >= -20 /\ 10 * adherent >= 8 * planned THEN GreatProgress
        ELSE IF loss > -2 /\ 10 * adherent >= 7 * planned THEN Stalled
        ELSE IF 10 * adherent < 5 * planned THEN LowAdherence
        ELSE IF loss < -25 THEN TooFast
        ELSE IF Truthy(progress.averageCalories)
                /\ progress.averageCalories[1] > profile.dailyCalories + 200
        THEN CaloriesTooHigh
        ELSE NeedMoreData

\* WeightLossCoach.assessProgress.  workoutAdherence is
\* workoutsCompleted / workoutsPlanned, 0 when nothing was planned; it is
\* compared as adherent / planned with whole numbers.
assessProgress(profile, progress) ==
    LET completed == progress.workoutsCompleted
        planned == IF progress.workoutsPlanned > 0 THEN progress.workoutsPlanned ELSE 1
        adherent == IF progress.workoutsPlanned > 0 THEN completed ELSE 0
        actualWeeklyLoss == progress.averageWeightChange
    IN  IF actualWeeklyLoss <= -5 /\ actualWeeklyLoss >= -20
           /\ 10 * adherent >= 8 * planned
        THEN GreatProgress
        ELSE IF actualWeeklyLoss > -2 /\ 10 * adherent >= 7 * planned THEN Stalled
        ELSE IF actualWeeklyLoss < -25 THEN TooFast
        ELSE IF 10 * adherent < 5 * planned THEN LowAdherence
        ELSE IF Truthy(progress.averageCalories)
                /\ progress.averageCalories[1] > OrElse(Some(profile.dailyCalories), 0) + 200
        THEN CaloriesTooHigh
        ELSE NeedMoreData

\* getCoachingAdvice on a window of two or more entries: what it computes
\* from the window and the situation it chooses
EvalSituation(recentData) ==
    /\ call' = Evaluated("getCoachingAdvice", recentData,
                         [analysis |-> Analysis(recentData),
                          situation |-> Situation(recentData)])
    /\ UNCHANGED <<tokenVars, coachVars, clockVars, inv>>

EvalAssessProgress(profile, progress) ==
    /\ call' = Evaluated("assessProgress", [profile |-> profile, progress |-> progress],
                         assessProgress(profile, progress))
    /\ UNCHANGED <<tokenVars, coachVars, clockVars, inv>>

(***************************************************************************)
(* The calorie model evaluated on its own: the profile createUserProfile   *)
(* returns, with the BMR (10^-5 kcal) and TDEE it went through.            *)
(***************************************************************************)
EvalCreateUserProfile(basicInfo) ==
    /\ call' =
            LET bmr == calculateBMR(basicInfo.weight, basicInfo.height,
                                    basicInfo.age, basicInfo.gender)
            IN  Evaluated("createUserProfile", basicInfo,
                          [bmr |-> bmr,
                           tdee |-> calculateTDEE(bmr, basicInfo.activityLevel),
                           profile |-> createUserProfile(basicInfo)])
    /\ UNCHANGED <<tokenVars, coachVars, clockVars, inv>>

StarterAdvice ==
    "Ready to start your fitness journey? Let's begin with a simple 20-minute walk today!"
RecoveryAdvice ==
    "Great job on today's workout! Make sure to get good protein within 2 hours and stay hydrated."
ReadyAdvice ==
    "Perfect timing for your next workout! Your muscles have recovered. What sounds good today?"
RestartAdvice ==
    "It's been a few days since your last workout. No judgment! Let's get back on track with something easy today."
RoutineAdvice ==
    "You're in a great routine! Keep up the consistency - that's the key to success."

\* WeightLossCoach.getDailyAdvice(profile, lastWorkout?, daysAgo?): both are
\* optional; !lastWorkout is true of undefined (and of ''), !daysAgo of
\* undefined and of 0
getDailyAdvice(lastWorkout, daysAgo) ==
    IF lastWorkout = << >> \/ lastWorkout[1] = "" \/ ~Truthy(daysAgo) THEN StarterAdvice
    ELSE IF daysAgo[1] = 0 THEN RecoveryAdvice
    ELSE IF daysAgo[1] = 1 THEN ReadyAdvice
    ELSE IF daysAgo[1] >= 3 THEN RestartAdvice
    ELSE RoutineAdvice

EvalGetDailyAdvice(lastWorkout, daysAgo) ==
    /\ call' = Evaluated("getDailyAdvice",
                         [lastWorkout |-> lastWorkout, daysAgo |-> daysAgo],
                         getDailyAdvice(lastWorkout, daysAgo))
    /\ UNCHANGED <<tokenVars, coachVars, clockVars, inv>>

\* progressHistory.slice().reverse().find(p => p.workouts > 0)?.date:
\* the date of the last entry with a workout, if any
LastWorkoutDate(history) ==
    LET hits == {i \in DOMAIN history : history[i].workouts > 0}
    IN  IF hits = {} THEN Undefined
        ELSE Some(history[CHOOSE i \in hits : \A j \in hits : j <= i].date)

\* PersonalizedCoachingTools.getDailyAdvice (profile set up): daysAgo is the
\* number of whole days from the last workout's date to today
DailyAdviceTool(history, date) ==
    LET lastWorkoutDate == LastWorkoutDate(history)
        daysAgo == IF IsDefined(lastWorkoutDate)
                   THEN Some(date - lastWorkoutDate[1]) ELSE Undefined
    IN  getDailyAdvice(IF IsDefined(lastWorkoutDate) THEN Some("workout") ELSE Undefined,
                       daysAgo)

EvalDailyAdviceTool(history, date) ==
    /\ call' = Evaluated("PersonalizedCoachingTools.getDailyAdvice",
                         [history |-> history, today |-> date],
                         DailyAdviceTool(history, date))
    /\ UNCHANGED <<tokenVars, coachVars, clockVars, inv>>

(***************************************************************************)
(* The activity summaries of the Strava tools (index.ts).  An activity of  *)
(* the remote API: type, distance (m), moving_time (s), average_heartrate  *)
(* (optional), total_elevation_gain (m).                                   *)
(***************************************************************************)
Activity(type, distance, movingTime, heartrate, elevation) ==
    [type |-> type, distance |-> distance, moving_time |-> movingTime,
     average_heartrate |-> heartrate, total_elevation_gain |-> elevation]

\* n.toString().padStart(2, '0')
PadStart2(n) == IF n < 10 THEN "0" \o ToString(n) ELSE ToString(n)

\* formatPace(moving_time / (distance / 1000)), distance > 0: the quotient
\* is secondsPerKm; minutes = Math.floor(secondsPerKm / 60),
\* seconds = Math.round(secondsPerKm % 60)
formatPace(movingTime, distance) ==
    LET minutes == (movingTime * 1000) \div (60 * distance)
        seconds == RoundDiv((movingTime * 1000) % (60 * distance), distance)
    IN  ToString(minutes) \o ":" \o PadStart2(seconds) \o "/km"

\* the value of a field that is null
Null == << >>

\* variant: the pace of every run is computed, whatever its distance
avgPacePerKmAnyDistance(activity) ==
    IF activity.type = "Run"
    THEN [value |-> IF activity.distance = 0 THEN Some("Infinity:NaN/km")
                    ELSE Some(formatPace(activity.moving_time, activity.distance)),
          dividedByDistance |-> TRUE]
    ELSE [value |-> Null, dividedByDistance |-> FALSE]

\* getRecentActivities: avg_pace_per_km, and whether the division by the
\* distance was evaluated
avgPacePerKm(activity) ==
    IF activity.type = "Run" /\ activity.distance > 0
    THEN [value |-> Some(formatPace(activity.moving_time, activity.distance)),
          dividedByDistance |-> TRUE]
    ELSE [value |-> Null, dividedByDistance |-> FALSE]

\* getRecentActivities: the summary of the activities of the response
RECURSIVE SummaryOf(_)
SummaryOf(activities) ==
    IF activities = << >> THEN << >>
    ELSE <<[type |-> activities[1].type,
            duration_minutes |-> RoundDiv(activities[1].moving_time, 60),
            avg_pace_per_km |-> avgPacePerKm(activities[1]).value,
            dividedByDistance |-> avgPacePerKm(activities[1]).dividedByDistance,
            elevation_gain |-> activities[1].total_elevation_gain]>>
         \o SummaryOf(Tail(activities))

\* analyzeTrainingLoad: .filter(a => a.average_heartrate)
ReportsHeartRate(activity) == Truthy(activity.average_heartrate)

RECURSIVE SumHeartRate(_)
SumHeartRate(arr) ==
    IF arr = << >> THEN 0 ELSE arr[1].average_heartrate[1] + SumHeartRate(Tail(arr))

RECURSIVE SumField(_, _)
\* activities.reduce((sum, a) => sum + (a[field] || 0), 0)
SumField(activities, field) ==
    IF activities = << >> THEN 0
    ELSE activities[1][field] + SumField(Tail(activities), field)

\* variant: the heart rates are averaged over all the activities
avgHeartRateOverAll(activities) ==
    [sum |-> SumHeartRate(SelectSeq(activities, ReportsHeartRate)),
     count |-> Len(activities)]

\* analyzeTrainingLoad: avgHeartRate, the sum over the activities that report
\* a heart rate of average_heartrate / arr.length, kept as sum and count
avgHeartRate(activities) ==
    LET arr == SelectSeq(activities, ReportsHeartRate)
    IN  [sum |-> SumHeartRate(arr), count |-> Len(arr)]

RECURSIVE activityTypes(_)
\* analyzeTrainingLoad: types[a.type] = (types[a.type] || 0) + 1
activityTypes(activities) ==
    IF activities = << >> THEN << >>
    ELSE LET n == Len(activities)
             types == activityTypes(SubSeq(activities, 1, n - 1))
             type == activities[n].type
         IN  IF type \in DOMAIN types
             THEN [types EXCEPT ![type] = @ + 1]
             ELSE [t \in DOMAIN types \cup {type} |->
                        IF t = type THEN 1 ELSE types[t]]

\* analyzeTrainingLoad after the response: the figures of the report.
\* Distances are in metres, times in seconds; a weekly figure is printed
\* with one decimal (toFixed(1)) and kept here in tenths.
analyzeTrainingLoad(activities, days) ==
    IF Len(activities) = 0
    THEN [text |-> "No activities found in the last " \o ToString(days) \o " days.",
          report |-> Null]
    ELSE LET totalDistance == SumField(activities, "distance")
             totalTime == SumField(activities, "moving_time")
             hr == avgHeartRate(activities)
         IN  [text |-> "Training Load Analysis (Last " \o ToString(days) \o " days)",
              report |-> Some(
                [totalActivities |-> Len(activities),
                 totalDistance |-> totalDistance,
                 totalTime |-> totalTime,
                 averageHeartRate |->
                    IF hr.count > 0 /\ hr.sum > 0
                    THEN ToString(RoundDiv(hr.sum, hr.count)) \o " bpm"
                    ELSE "No HR data",
                 activityTypes |-> activityTypes(activities),
                 distancePerWeek |-> RoundDiv(totalDistance * 7, 100 * days),
                 timePerWeek |-> RoundDiv(totalTime * 7, 360 * days),
                 activitiesPerWeek |-> RoundDiv(Len(activities) * 70, days)])]

EvalAnalyzeTrainingLoad(activities, days) ==
    /\ call' = Evaluated("analyzeTrainingLoad",
                         [activities |-> activities, days |-> days],
                         analyzeTrainingLoad(activities, days))
    /\ UNCHANGED <<tokenVars, coachVars, clockVars, inv>>

EvalRecentActivitiesSummary(activities) ==
    /\ call' = Evaluated("getRecentActivities", activities, SummaryOf(activities))
    /\ UNCHANGED <<tokenVars, coachVars, clockVars, inv>>

EvalSearchSimilarDocuments(docs, query, topK) ==
    /\ call' = Evaluated("searchSimilarDocuments",
                         [documents |-> docs, query |-> query, topK |-> topK],
                         searchSimilarDocuments(docs, query, topK))
    /\ UNCHANGED <<tokenVars, coachVars, clockVars, inv>>

EvalSearchEnhancedKnowledge(docs, query, topK) ==
    /\ call' = Evaluated("searchEnhancedKnowledge",
                         [documents |-> docs, query |-> query, topK |-> topK],
                         searchEnhancedKnowledge(docs, query, topK))
    /\ UNCHANGED <<tokenVars, coachVars, clockVars, inv>>

(***************************************************************************)
(* Initial state: the server has just been constructed.                    *)
(***************************************************************************)
\* no function has been evaluated
NoCall == [fn |-> "", args |-> << >>, result |-> << >>]

\* FITNESS_DOCUMENTS (contents abbreviated to their first words)
FitnessDocuments ==
    << Document("plateau_1", "Weight loss plateaus occur", "weight_loss", "metabolic_research"),
       Document("plateau_2", "Research shows that strategic refeed days", "weight_loss", "hormone_research"),
       Document("protein_1", "Protein requirements for weight loss", "nutrition", "protein_research"),
       Document("cardio_1", "The fat-burning zone", "exercise", "cardio_research"),
       Document("sleep_1", "Sleep deprivation increases ghrelin", "recovery", "sleep_research"),
       Document("habits_1", "Habit formation takes an average of 66 days", "psychology", "behavioral_research") >>

Init ==
    /\ accessToken \in {"", "at0"}      \* process.env.STRAVA_ACCESS_TOKEN || ''
    /\ refreshToken \in {"", "rt0"}     \* process.env.STRAVA_REFRESH_TOKEN || ''
    /\ expiresAt = 0
    /\ envFile \in EnvFiles
    /\ issued = 0
    /\ inv = [p \in Slots |-> IdleInv]
    /\ userProfile = << >>
    /\ progressHistory = << >>
    /\ today = 1
    /\ nowMs = 0
    /\ documents = << >>
    /\ staticDocuments = FitnessDocuments
    /\ call = NoCall

(***************************************************************************)
(* Inputs.                                                                 *)
(***************************************************************************)
Profile1 == SetupArgs(30, "male", 180, 70, "lose_weight", "moderately_active")
Profile2 == SetupArgs(45, "female", 150, 64, "get_fit", "sedentary")

GoodUrl == Url("https://example.com/plan", TRUE, "example.com")
BadUrl == Url("not a url", FALSE, "")
WebsiteArgs(url, category) == [defined |-> TRUE, url |-> url, category |-> category]
FileArgs(path, category) == [defined |-> TRUE, filePath |-> path, category |-> category]
AdviceArgs(days) == [defined |-> TRUE, days |-> days]
SearchArgs(topic) == [defined |-> TRUE, topic |-> topic]

UnknownNames == {"delete_activity", ""}
CatalogNames == {ToolCatalog[i] : i \in DOMAIN ToolCatalog}

(***************************************************************************)
(* Spec: the server handling one request at a time (slot 1): every tool of *)
(* the catalog, an unknown tool, and the answers of the remote API.        *)
(***************************************************************************)
Next ==
    \/ \E count \in {Undefined, Some(40)} : CallGetRecentActivities(1, count)
    \/ CallGetAthleteProfile(1)
    \/ \E days \in {Undefined, Some(14)} : CallAnalyzeTrainingLoad(1, days)
    \/ \E id \in {Undefined, Some(0), Some(123)} : CallGetActivityDetails(1, id)
    \/ \E name \in UnknownNames \cup CatalogNames : CallUnknownTool(1, name)
    \/ \E o \in ProbeOutcomes : ProbeResponse(1, o)
    \/ RefreshSuccess(1)
    \/ \E o \in RefreshFailures : RefreshFailure(1, o)
    \/ \E o \in DataOutcomes : DataResponse(1, o)
    \/ \E a \in {NoArgs, Profile1} : CallSetupUserProfile(1, a)
    \/ \E a \in {NoArgs, LogArgs(Some(178), Some(1), Undefined)} : CallLogProgress(1, a)
    \/ \E a \in {NoArgs, AdviceArgs(Undefined)} : CallGetCoachingAdvice(1, a)
    \/ \E a \in {NoArgs, SearchArgs("protein")} : CallSearchKnowledge(1, a)
    \/ \E a \in {NoArgs, WebsiteArgs(GoodUrl, ""), WebsiteArgs(BadUrl, "")} :
            StoreHasRoom(MaxDocs) /\ CallAddWebsiteKnowledge(1, a)
    \/ \E a \in {NoArgs, FileArgs(Path("/docs/plan.pdf", "plan.pdf"), "nutrition")} :
            StoreHasRoom(MaxDocs) /\ CallAddFileKnowledge(1, a)
    \/ CallGetRAGStats(1)

Spec == Init /\ [][Next]_vars

(***************************************************************************)
(* SpecCoach: the coaching tools over several days, with every             *)
(* combination of supplied and omitted log_progress fields.                *)
(***************************************************************************)
OptWeights == {Undefined, Some(178)}
OptWorkouts == {Undefined, Some(0), Some(2)}
OptCalories == {Undefined, Some(1800)}

NextCoach ==
    \/ \E a \in {NoArgs, Profile1, Profile2} : CallSetupUserProfile(1, a)
    \/ \E w \in OptWeights, k \in OptWorkouts, c \in OptCalories :
            CallLogProgress(1, LogArgs(w, k, c))
    \/ CallLogProgress(1, NoArgs)
    \/ \E a \in {NoArgs, AdviceArgs(Undefined), AdviceArgs(Some(1))} :
            CallGetCoachingAdvice(1, a)
    \/ \E a \in {NoArgs, SearchArgs("protein")} : CallSearchKnowledge(1, a)
    \/ NextDay

InitCoach ==
    /\ Init
    /\ accessToken = "at0"
    /\ refreshToken = "rt0"
    /\ envFile = NoFile

SpecCoach == InitCoach /\ [][NextCoach]_vars

(***************************************************************************)
(* SpecAdvice: one profile, a progress list of up to MaxAdviceDay days and *)
(* get_coaching_advice with windows shorter than, equal to and longer than *)
(* the list.                                                               *)
(***************************************************************************)
AdviceDays == {Undefined, Some(1), Some(2), Some(3)}

NextAdvice ==
    \/ CallSetupUserProfile(1, Profile1)
    \/ \E w \in {Undefined, Some(178)}, k \in {Undefined, Some(1)} :
            CallLogProgress(1, LogArgs(w, k, Undefined))
    \/ \E d \in AdviceDays : CallGetCoachingAdvice(1, AdviceArgs(d))
    \/ AdvanceDay(MaxAdviceDay)

SpecAdvice == InitCoach /\ [][NextAdvice]_vars

(***************************************************************************)
(* Specifications of the functions without state, each evaluated on inputs *)
(* drawn from bounded sets: SpecCoachRules (WeightLossCoach), SpecCalories *)
(* (the calorie model), SpecActivities (the Strava summaries) and          *)
(* SpecSearch (the two document stores).                                   *)
(***************************************************************************)
WeightChanges == {-30, -26, -25, -24, -21, -20, -19, -10, -6, -5, -4, -3, -2, -1, 0, 5}
Completions == {0, 4, 5, 6, 7, 8, 10}
AverageCalories == {Undefined, Some(1700), Some(2200), Some(2201), Some(2500)}
CoachedProfile == [dailyCalories |-> 2000]

ProgressInputs ==
    {RecentProgress(d, c, pl, k) :
        d \in WeightChanges, c \in Completions, pl \in {0, 10}, k \in AverageCalories}

\* progress lists of at most two days, as log_progress builds them
Entry(date, workouts) ==
    [date |-> date, weight |-> 180, workouts |-> workouts, calories |-> Undefined]
WorkoutHistories ==
    {<< >>}
    \cup {<<Entry(d, w)>> : d \in 1..4, w \in {0, 1}}
    \cup {<<Entry(d[1], w1), Entry(d[2], w2)>> :
            d \in {x \in (1..4) \X (1..4) : x[1] < x[2]}, w1 \in {0, 1}, w2 \in {0, 2}}

NextCoachRules ==
    \/ \E g \in ProgressInputs : EvalAssessProgress(CoachedProfile, g)
    \/ \E l \in {Undefined, Some("workout")}, d \in {Undefined} \cup {Some(n) : n \in 0..5} :
            EvalGetDailyAdvice(l, d)
    \/ \E h \in WorkoutHistories : EvalDailyAdviceTool(h, 4)

SpecCoachRules == InitCoach /\ [][NextCoachRules]_vars

BasicInfos ==
    {SetupArgs(a, g, w, h, goal, level) :
        a \in {30, 60}, g \in {"male", "female"}, w \in {120, 180}, h \in {60, 70},
        goal \in {"lose_weight", "gain_muscle", "get_fit", "maintain"},
        level \in {"sedentary", "lightly_active", "moderately_active",
                   "very_active", "athlete"}}

\* a window of n days: the weight changes by weightChange pounds from the
\* first day to the last, one workout on each of the first totalWorkouts days
Window(n, weightChange, totalWorkouts) ==
    [i \in 1..n |->
        [date |-> i, weight |-> IF i = n THEN 180 + weightChange ELSE 180,
         workouts |-> IF i <= totalWorkouts THEN 1 ELSE 0, calories |-> Undefined]]

\* windows of 7, 10, 14 and 35 days: weekly changes from -4.0 to +1.0 lb on
\* both sides of -0.2, -0.5, -2.0 and -2.5, adherences on both sides of
\* 0.5, 0.7 and 0.8
Windows ==
    {Window(7, c, k) : c \in -4..1, k \in {0, 3, 4, 5, 6, 7}}
    \cup {Window(10, c, k) : c \in -4..1, k \in {4, 5, 6, 7, 8}}
    \cup {Window(14, c, k) : c \in -6..1, k \in {6, 7, 9, 10, 11, 12}}
    \cup {Window(35, c, k) : c \in {-13, -12, -10, -3, -2, -1, 0},
                              k \in {17, 18, 24, 25, 27, 28}}

NextSituations ==
    \/ \E w \in Windows : EvalSituation(w)

SpecSituations == InitCoach /\ [][NextSituations]_vars

NextCalories ==
    \/ \E b \in BasicInfos : EvalCreateUserProfile(b)

SpecCalories == InitCoach /\ [][NextCalories]_vars

Activities ==
    {Activity(t, d, mt, hr, 10) :
        t \in {"Run", "Ride", "Walk"}, d \in {0, 3000, 5000}, mt \in {0, 1500, 1797, 1798},
        hr \in {Undefined, Some(140), Some(151)}}

\* responses of none, one and two activities
ActivityLists ==
    {<< >>}
    \cup {<<a1>> : a1 \in Activities}
    \cup {<<Activity("Run", 5000, 1500, Undefined, 0), a1>> : a1 \in Activities}

\* the activities of a window: none to three
LoadActivities ==
    {Activity(t, d, 1500, hr, 10) :
        t \in {"Run", "Ride"}, d \in {0, 5000}, hr \in {Undefined, Some(140), Some(151)}}
LoadLists ==
    {<< >>}
    \cup {<<a1>> : a1 \in LoadActivities}
    \cup {<<a1, a2>> : a1 \in LoadActivities, a2 \in LoadActivities}
    \cup {<<Activity("Walk", 3000, 1797, Some(100), 0), a1,
             Activity("Run", 10000, 3000, Undefined, 50)>> : a1 \in LoadActivities}

NextActivities ==
    \/ \E l \in ActivityLists : EvalRecentActivitiesSummary(l)
    \/ \E l \in LoadLists, days \in {3, 7, 14} : EvalAnalyzeTrainingLoad(l, days)

SpecActivities == InitCoach /\ [][NextActivities]_vars

\* FITNESS_DOCUMENTS by the keywords of their contents
StaticChunks ==
    << Chunk("plateau_1", {"weight", "loss", "plateau", "metabolism", "exercise",
                           "hormone", "leptin", "ghrelin"}),
       Chunk("plateau_2", {"plateau", "hormone", "leptin", "rate"}),
       Chunk("protein_1", {"protein", "weight", "loss", "muscle"}),
       Chunk("cardio_1", {"zone", "loss"}),
       Chunk("sleep_1", {"sleep", "ghrelin", "leptin"}),
       Chunk("habits_1", {}) >>

\* documents added to the static store by addDocument
StaticAdded ==
    << Chunk("doc_1", {"sleep", "leptin", "recovery"}),
       Chunk("doc_2", {"protein"}) >>

\* documents added to the dynamic store
AddedChunks ==
    << Chunk("web_1", {"fitness"}),
       Chunk("web_2", {"nutrition", "protein"}),
       Chunk("file_3", {}),
       Chunk("web_4", {"fitness", "exercise", "cardio"}),
       Chunk("file_5", {"weight", "muscle"}),
       Chunk("web_6", {"protein"}),
       Chunk("web_7", {"exercise"}) >>

Stores(chunks) == {SubSeq(chunks, 1, n) : n \in 0..Len(chunks)}
Queries ==
    {{}, {"protein"}, {"weight", "loss", "plateau"}, {"sleep", "leptin"},
     {"exercise", "cardio", "fitness"}, {"muscle", "protein", "weight"}}
TopKs == {Undefined, Some(0), Some(1), Some(2), Some(4), Some(10)}

NextSearch ==
    \/ \E d \in Stores(StaticAdded), q \in Queries, k \in TopKs :
            EvalSearchSimilarDocuments(StaticChunks \o d, q, k)
    \/ \E d \in Stores(AddedChunks), q \in Queries, k \in TopKs :
            EvalSearchEnhancedKnowledge(d, q, k)

SpecSearch == InitCoach /\ [][NextSearch]_vars

(***************************************************************************)
(* SpecStore: the dynamic store growing to MaxStored documents, through    *)
(* websites and files of several categories, with searches and statistics  *)
(* in between, on a clock that may or may not tick between two additions.  *)
(***************************************************************************)
MaxStored == 3

NextStore ==
    \/ CallSetupUserProfile(1, Profile1)
    \/ \E u \in {GoodUrl, BadUrl}, c \in {"", "protein"} :
            StoreHasRoom(MaxStored) /\ CallAddWebsiteKnowledge(1, WebsiteArgs(u, c))
    \/ \E c \in {"", "nutrition"} :
            StoreHasRoom(MaxStored)
            /\ CallAddFileKnowledge(1, FileArgs(Path("/docs/plan.pdf", "plan.pdf"), c))
    \/ \E t \in {"protein", "sleep"} : CallSearchKnowledge(1, SearchArgs(t))
    \/ CallGetRAGStats(1)
    \/ NextMs

SpecStore == InitCoach /\ [][NextStore]_vars

(***************************************************************************)
(* SpecOverlap: two Strava tool invocations in flight at once.  The        *)
(* handler of a request runs until its next await; the answers of the      *)
(* remote API arrive in any order.                                         *)
(***************************************************************************)
NextOverlap ==
    \/ \E p \in Slots : CallGetAthleteProfile(p)
    \/ \E p \in Slots, count \in {Undefined} : CallGetRecentActivities(p, count)
    \/ \E p \in Slots, o \in {HttpOk, HttpError(401), NetworkError} : ProbeResponse(p, o)
    \/ \E p \in Slots : RefreshSuccess(p)
    \/ \E p \in Slots,
          o \in {HttpErrorWith(400, <<Fault("invalid", "refresh_token")>>), NetworkError} :
            RefreshFailure(p, o)
    \/ \E p \in Slots, o \in {HttpOk, HttpError(401)} : DataResponse(p, o)

SpecOverlap == InitCoach /\ [][NextOverlap]_vars

(***************************************************************************)
(* Properties.                                                             *)
(***************************************************************************)
RefreshRequests(rec) == {i \in DOMAIN rec.net : rec.net[i].kind = "refresh"}
DataRequests(rec) == {i \in DOMAIN rec.net : rec.net[i].kind = "data"}
Is401(o) == ~o.ok /\ o.hasResponse /\ o.status = 401

\* C1: an invocation that probed a non-empty cached token has sent exactly
\* one refresh request if the probe was answered 401 (and never a second one,
\* whatever the refresh's answer), and none if the probe succeeded.
C1_OneRefreshPer401 ==
    \A p \in Slots :
        LET r == inv[p]
        IN  (r.cached # "" /\ r.probe # << >>) =>
                /\ Is401(r.probe[1]) => Cardinality(RefreshRequests(r)) = 1
                /\ r.probe[1].ok => RefreshRequests(r) = {}

\* a 401 on the probe, one refresh request, the refresh failed, the
\* invocation is over: no retry was sent
C1_Witness ==
    \E p \in Slots :
        /\ inv[p].pc = "done"
        /\ inv[p].cached = "at0"
        /\ inv[p].probe = <<HttpError(401)>>
        /\ inv[p].refresh = <<HttpError(500)>>
        /\ Cardinality(RefreshRequests(inv[p])) = 1

\* C2: when the probe fails with anything but a 401, getValidAccessToken
\* returns the cached access token, the cached token is unchanged and the
\* invocation has sent no refresh request.
C2_ProbeFailsOpen ==
    \A p \in Slots :
        LET r == inv[p]
        IN  (r.probe # << >> /\ ~r.probe[1].ok /\ ~Is401(r.probe[1])) =>
                /\ r.returned = <<r.cached>>
                /\ accessToken = r.cached
                /\ RefreshRequests(r) = {}

\* the probe ended in a network error and the data request went out with the
\* cached token
C2_Witness ==
    \E p \in Slots :
        /\ inv[p].probe = <<NetworkError>>
        /\ inv[p].returned = <<"at0">>
        /\ inv[p].pc = "done"
        /\ inv[p].data # << >>

\* the token endpoint rejected the refresh token itself
RefreshTokenRejected(o) ==
    /\ o.hasResponse
    /\ o.status = 400
    /\ Fault("invalid", "refresh_token") \in {o.errors[i] : i \in DOMAIN o.errors}

\* C3: a failed refresh raises the re-authorize error exactly when the
\* endpoint answered 400 with an error entry (invalid, refresh_token); any
\* other failure raises the generic error, which is a different message.
C3_RefreshFailureKinds ==
    /\ ReauthorizeMessage # RefreshFailedMessage
    /\ \A p \in Slots :
        LET r == inv[p]
        IN  (r.refresh # << >> /\ ~r.refresh[1].ok) =>
                /\ r.pc = "done"
                /\ r.outcome = Throw(IF RefreshTokenRejected(r.refresh[1])
                                     THEN ReauthorizeMessage
                                     ELSE RefreshFailedMessage)

\* the endpoint rejected the refresh token and the caller was told to
\* re-authorize
C3_Witness ==
    \E p \in Slots :
        /\ inv[p].refresh = <<HttpErrorWith(400, <<Fault("invalid", "refresh_token")>>)>>
        /\ inv[p].response = TextResponse("Error: " \o ReauthorizeMessage)

\* a line that sets key (not a comment that mentions it)
LiveLine(l, key) == l.pre = "" /\ l.key = key

\* C4: after every successful refresh the tokens in memory are the new pair,
\* the STRAVA_ACCESS_TOKEN and STRAVA_REFRESH_TOKEN lines of the .env file
\* hold the new pair and every other line of the file is as it was.
C4_EnvFileHoldsNewPair ==
    [][issued' # issued =>
        LET tokens == IssuedPair(issued')
        IN  /\ accessToken' = tokens.access_token
            /\ refreshToken' = tokens.refresh_token
            /\ envFile'.exists = envFile.exists
            /\ Len(envFile'.lines) = Len(envFile.lines)
            /\ \A i \in DOMAIN envFile.lines :
                LET old == envFile.lines[i]
                    new == envFile'.lines[i]
                IN  IF LiveLine(old, AccessKey)
                    THEN new = [old EXCEPT !.val = tokens.access_token]
                    ELSE IF LiveLine(old, RefreshKey)
                    THEN new = [old EXCEPT !.val = tokens.refresh_token]
                    ELSE new = old]_vars

C6_ErrorsBecomeText ==
    \A p \in Slots :
        LET r == inv[p]
        IN  r.pc = "done" =>
                /\ ~r.escaped
                /\ r.outcome.kind \in {"return", "throw"}
                /\ Len(r.response.content) = 1
                /\ r.response.content[1].type = "text"
                /\ r.outcome.kind = "throw" =>
                        r.response.content[1].text = "Error: " \o r.outcome.text

\* an unknown tool name was called and answered with the error text
C6_Witness ==
    \E p \in Slots :
        /\ inv[p].pc = "done"
        /\ inv[p].tool = "delete_activity"
        /\ inv[p].outcome = Throw("Unknown tool: delete_activity")
        /\ inv[p].response = TextResponse("Error: Unknown tool: delete_activity")

\* C7: a get_activity_details call that carries no activity_id ends at once
\* with the error 'activity_id is required' and has sent no request: no
\* probe, no refresh, no activity request.
C7_MissingIdSendsNothing ==
    \A p \in Slots :
        LET r == inv[p]
        IN  (r.pc # "idle" /\ r.tool = "get_activity_details" /\ r.given = Undefined) =>
                /\ r.pc = "done"
                /\ r.net = << >>
                /\ r.outcome = Throw("activity_id is required")
                /\ r.response = TextResponse("Error: activity_id is required")

\* get_activity_details was called without an id while a token was cached
C7_Witness ==
    \E p \in Slots :
        /\ inv[p].pc = "done"
        /\ inv[p].tool = "get_activity_details"
        /\ inv[p].given = Undefined
        /\ inv[p].cached = "at0"

NeedsProfile == {"log_progress", "get_coaching_advice", "search_knowledge"}

\* C8: while no profile is set up, a log_progress, get_coaching_advice or
\* search_knowledge call returns the 'set up your profile first' text without
\* throwing and leaves the progress list and both document stores unchanged.
C8_NoProfileNoEffect ==
    [][\A p \in Slots :
        (userProfile = << >> /\ inv'[p] # inv[p] /\ inv'[p].tool \in NeedsProfile) =>
            /\ inv'[p].pc = "done"
            /\ ~inv'[p].escaped
            /\ inv'[p].outcome =
                    Return(IF inv'[p].tool = "search_knowledge"
                           THEN SearchSetupFirstMessage ELSE SetupFirstMessage)
            /\ inv'[p].response = TextResponse(inv'[p].outcome.text)
            /\ progressHistory' = progressHistory
            /\ documents' = documents
            /\ staticDocuments' = staticDocuments]_vars

\* log_progress was answered with the message while no profile was set up
\* and the dynamic store held a document
C8_Witness ==
    \E p \in Slots :
        /\ userProfile = << >>
        /\ documents # << >>
        /\ inv[p].tool = "log_progress"
        /\ inv[p].response = TextResponse(SetupFirstMessage)

DefinedLogArgs ==
    {LogArgs(w, k, c) : w \in OptWeights, k \in OptWorkouts, c \in OptCalories}
HasEntry(date) == \E i \in DOMAIN progressHistory : progressHistory[i].date = date

\* C9: the progress list never holds two entries of the same date; a
\* log_progress call (profile set up) on a date that has an entry leaves the
\* length of the list unchanged, and on a date that has none adds one entry.
C9_OneEntryPerDate ==
    /\ [](\A i, j \in DOMAIN progressHistory :
            i # j => progressHistory[i].date # progressHistory[j].date)
    /\ [][\A a \in DefinedLogArgs :
            (userProfile # << >> /\ CallLogProgress(1, a)) =>
                Len(progressHistory') =
                    IF HasEntry(today) THEN Len(progressHistory)
                    ELSE Len(progressHistory) + 1]_vars

\* on day 2 a log found the day's entry (second in the list) and updated it:
\* two days, two entries
C9_Witness ==
    /\ today = 2
    /\ Len(progressHistory) = 2
    /\ inv[1].tool = "log_progress"
    /\ inv[1].existingIndex = 2

\* C10: a log_progress call on a date that has an entry replaces every field
\* it supplies, whatever the value (a workout count of 0 too), and keeps
\* every field it does not supply.
C10_SuppliedFieldsReplace ==
    [][\A a \in DefinedLogArgs :
        (userProfile # << >> /\ HasEntry(today) /\ CallLogProgress(1, a)) =>
            LET i == findIndex(progressHistory, today)
                old == progressHistory[i]
                new == progressHistory'[i]
            IN  /\ new.weight = IF IsDefined(a.weight) THEN a.weight[1] ELSE old.weight
                /\ new.workouts = IF IsDefined(a.workoutsToday)
                                  THEN a.workoutsToday[1] ELSE old.workouts
                /\ new.calories = IF IsDefined(a.calories)
                                  THEN a.calories ELSE old.calories]_vars

\* C11: a log_progress call (profile set up) on a date that has no entry
\* appends an entry of that date whose weight is the supplied weight, or the
\* current profile's weight when none is supplied (whatever was logged
\* before), and whose workout count is the supplied count, or 0 when none is
\* supplied.
C11_NewEntryDefaults ==
    [][\A a \in DefinedLogArgs :
        (userProfile # << >> /\ ~HasEntry(today) /\ CallLogProgress(1, a)) =>
            LET new == progressHistory'[Len(progressHistory')]
            IN  /\ Len(progressHistory') = Len(progressHistory) + 1
                /\ new.date = today
                /\ new.weight = IF IsDefined(a.weight) THEN a.weight[1]
                                ELSE userProfile[1].weight
                /\ new.workouts = IF IsDefined(a.workoutsToday)
                                  THEN a.workoutsToday[1] ELSE 0]_vars

\* day 1 was logged at 178; the log of day 2 gave no weight and no count and
\* its new entry holds the profile's 180 and 0 workouts
C11_Witness ==
    /\ Len(progressHistory) = 2
    /\ progressHistory[1].weight = 178
    /\ userProfile # << >>
    /\ userProfile[1].weight = 180
    /\ progressHistory[2].weight = 180
    /\ progressHistory[2].workouts = 0
    /\ inv[1].tool = "log_progress"
    /\ inv[1].existingIndex = 0

\* C12: get_coaching_advice with window n (7 when none is given) takes the
\* last min(n, length) entries of the progress list, in the list's order;
\* when these are fewer than 2 it answers with the 'need more data' guidance
\* and computes nothing, otherwise it computes the weight change and the
\* workout total of exactly that window.
C12_AdviceWindow ==
    [][\A d \in AdviceDays :
        (userProfile # << >> /\ CallGetCoachingAdvice(1, AdviceArgs(d))) =>
            LET n == IF IsDefined(d) THEN d[1] ELSE 7
                len == Len(progressHistory)
                m == IF n <= len THEN n ELSE len
                window == [i \in 1..m |-> progressHistory[len - m + i]]
            IN  /\ inv'[1].recentData = window
                /\ IF m < 2
                   THEN /\ inv'[1].analysis = << >>
                        /\ inv'[1].response = TextResponse(NeedMoreDataText)
                   ELSE /\ inv'[1].analysis =
                                <<[days |-> m,
                                   weightChange |-> window[m].weight - window[1].weight,
                                   totalWorkouts |-> SumWorkouts(window)]>>
                        /\ inv'[1].response # TextResponse(NeedMoreDataText)]_vars

\* three days are logged (178, 180, 178) and advice over a window of 2 took
\* the second and third entry: weight change -2, not 0
C12_Witness ==
    /\ Len(progressHistory) = 3
    /\ progressHistory[1].weight = 178
    /\ progressHistory[2].weight = 180
    /\ progressHistory[3].weight = 178
    /\ inv[1].tool = "get_coaching_advice"
    /\ inv[1].given = Some(2)
    /\ inv[1].recentData = <<progressHistory[2], progressHistory[3]>>
    /\ inv[1].analysis # << >>
    /\ inv[1].analysis[1].weightChange = -2

\* weekly weight change -1.0 lb with 10 of 10 workouts
C13_Example1 == RecentProgress(-10, 10, 10, Undefined)
\* weekly weight change -0.1 lb with 9 of 10 workouts
C13_Example2 == RecentProgress(-1, 9, 10, Undefined)

\* C13: for every weekly weight change D (tenths of a pound), adherence
\* A = completed / planned, reported calories and calorie target,
\* assessProgress returns the outcome of the first rule that matches, in the
\* order: (1) -2.0 <= D <= -0.5 and A >= 0.8, excellent, low; (2) D > -0.2
\* and A >= 0.7, plateaued, medium; (3) D < -2.5, too fast, high; (4) A < 0.5,
\* adherence, high; (5) calories > target + 200, calories too high, medium;
\* (6) otherwise insufficient data, low.  D = -1.0, A = 1.0 gives rule 1;
\* D = -0.1, A = 0.9 gives rule 2; D < -2.5 with A < 0.5 gives rule 3.
C13_FirstMatchingRule ==
    /\ assessProgress(CoachedProfile, C13_Example1) = GreatProgress
    /\ assessProgress(CoachedProfile, C13_Example2) = Stalled
    /\ (call.fn = "assessProgress" /\ call.args.progress.workoutsPlanned > 0) =>
        LET g == call.args.progress
            D == g.averageWeightChange
            c == g.workoutsCompleted
            pl == g.workoutsPlanned
            target == call.args.profile.dailyCalories
            rule == CASE -20 <= D /\ D <= -5 /\ 10 * c >= 8 * pl -> 1
                      [] ~(-20 <= D /\ D <= -5 /\ 10 * c >= 8 * pl)
                         /\ D > -2 /\ 10 * c >= 7 * pl -> 2
                      [] ~(-20 <= D /\ D <= -5 /\ 10 * c >= 8 * pl)
                         /\ ~(D > -2 /\ 10 * c >= 7 * pl)
                         /\ D < -25 -> 3
                      [] ~(-20 <= D /\ D <= -5 /\ 10 * c >= 8 * pl)
                         /\ ~(D > -2 /\ 10 * c >= 7 * pl)
                         /\ ~(D < -25) /\ 10 * c < 5 * pl -> 4
                      [] ~(-20 <= D /\ D <= -5 /\ 10 * c >= 8 * pl)
                         /\ ~(D > -2 /\ 10 * c >= 7 * pl)
                         /\ ~(D < -25) /\ ~(10 * c < 5 * pl)
                         /\ IsDefined(g.averageCalories)
                         /\ g.averageCalories[1] > target + 200 -> 5
                      [] OTHER -> 6
        IN  /\ call.result =
                    CASE rule = 1 -> GreatProgress
                      [] rule = 2 -> Stalled
                      [] rule = 3 -> TooFast
                      [] rule = 4 -> LowAdherence
                      [] rule = 5 -> CaloriesTooHigh
                      [] OTHER -> NeedMoreData
            /\ (D < -25 /\ 10 * c < 5 * pl) => call.result = TooFast

\* a loss of 3.0 lb a week with 4 of 10 workouts was assessed: too fast
C13_Witness ==
    /\ call.fn = "assessProgress"
    /\ call.args.progress = RecentProgress(-30, 4, 10, Undefined)
    /\ call.result = TooFast
    /\ call.result.urgency = "high"

\* the advice the claim gives for a last workout daysAgo days ago
C14_Expected(daysAgo) ==
    IF daysAgo = 0 THEN RecoveryAdvice
    ELSE IF daysAgo = 1 THEN ReadyAdvice
    ELSE IF daysAgo >= 3 THEN RestartAdvice
    ELSE RoutineAdvice

\* C14: given a workout history, the daily advice is the recovery tip when
\* the last workout was 0 days ago, the 'ready again' message at 1 day, the
\* 'restart' message at 3 or more days and the 'good routine' message at 2
\* days; the starter message is given only when there is no workout history.
C14_DailyAdviceByDays ==
    /\ (call.fn = "getDailyAdvice" /\ IsDefined(call.args.daysAgo)) =>
            call.result = IF IsDefined(call.args.lastWorkout)
                          THEN C14_Expected(call.args.daysAgo[1])
                          ELSE StarterAdvice
    /\ call.fn = "PersonalizedCoachingTools.getDailyAdvice" =>
            LET last == LastWorkoutDate(call.args.history)
            IN  call.result = IF IsDefined(last)
                              THEN C14_Expected(call.args.today - last[1])
                              ELSE StarterAdvice

\* C15 as claimed: male, 30, 180 lb, 70 in, moderately active, losing
\* weight: BMR 1780, TDEE 2759, calorie target 2259 (nearest integers),
\* protein target 180.
C15_ExampleAsClaimed ==
    (call.fn = "createUserProfile" /\ call.args = Profile1) =>
        /\ RoundDiv(call.result.bmr, 100000) = 1780
        /\ call.result.tdee = 2759
        /\ call.result.profile.dailyCalories = 2259
        /\ call.result.profile.proteinTarget = 180

\* C15, amended: male, 30, 180 lb, 70 in, moderately active, losing weight:
\* BMR 1782.7156 (1783 to the nearest integer), TDEE 2763, calorie target
\* 2263, protein target 180; every evaluation on these inputs, and every
\* setup_user_profile call with them, gives these outputs.
C15_Example ==
    /\ (call.fn = "createUserProfile" /\ call.args = Profile1) =>
        /\ call.result.bmr = 178271560
        /\ RoundDiv(call.result.bmr, 100000) = 1783
        /\ call.result.tdee = 2763
        /\ call.result.profile.dailyCalories = 2263
        /\ call.result.profile.proteinTarget = 180
    /\ createUserProfile(Profile1).dailyCalories = 2263
    /\ createUserProfile(Profile1).proteinTarget = 180

\* the example profile was evaluated after another one
C15_Witness ==
    /\ call.fn = "createUserProfile"
    /\ call.args = Profile1
    /\ call.result.profile.dailyCalories = 2263

\* Math.round(bmr * multiplier) for bmr in 10^-5 kcal and the multiplier in
\* thousandths, by long multiplication on the last three digits of bmr
C16_RoundedProduct(bmr, m) ==
    LET high == (bmr \div 1000) * m
        low == (high % 100000) * 1000 + (bmr % 1000) * m     \* 10^-8 kcal
    IN  (high \div 100000)
        + (IF 2 * low >= 300000000 THEN 2 ELSE IF 2 * low >= 100000000 THEN 1 ELSE 0)

\* C16: for every biometric input and activity level the daily calorie
\* target is TDEE - 500 for lose_weight, TDEE + 300 for gain_muscle and TDEE
\* for any other goal, where TDEE is round(BMR x multiplier) with multiplier
\* 1.2, 1.375, 1.55, 1.725 for the four levels and 1.2 for any other level.
C16_CalorieTarget ==
    call.fn = "createUserProfile" =>
        LET info == call.args
            level == info.activityLevel
            m == IF level = "sedentary" THEN 1200
                 ELSE IF level = "lightly_active" THEN 1375
                 ELSE IF level = "moderately_active" THEN 1550
                 ELSE IF level = "very_active" THEN 1725
                 ELSE 1200
            tdee == C16_RoundedProduct(call.result.bmr, m)
        IN  /\ call.result.tdee = tdee
            /\ call.result.profile.dailyCalories \in Int
            /\ call.result.profile.dailyCalories =
                    IF info.goal = "lose_weight" THEN tdee - 500
                    ELSE IF info.goal = "gain_muscle" THEN tdee + 300
                    ELSE tdee

\* a profile with an unrecognised activity level and the goal gain_muscle:
\* BMR 1035.8104 x 1.2 = 1242.97..., TDEE 1243, target 1543
C16_Witness ==
    /\ call.fn = "createUserProfile"
    /\ call.args = SetupArgs(60, "female", 120, 60, "gain_muscle", "athlete")
    /\ call.result.bmr = 103581040
    /\ call.result.tdee = 1243
    /\ call.result.profile.dailyCalories = 1543

\* C17: in the recent-activities summary the pace of an activity is
\* computed exactly when its type is 'Run' and its distance is greater than
\* 0; otherwise the field is null and nothing was divided by the distance.
\* A run of 5000 m in 1500 s has the pace '5:00/km'.
C17_PaceOnlyForRuns ==
    /\ formatPace(1500, 5000) = "5:00/km"
    /\ call.fn = "getRecentActivities" =>
        /\ Len(call.result) = Len(call.args)
        /\ \A i \in DOMAIN call.args :
            LET activity == call.args[i]
                item == call.result[i]
            IN  /\ (activity.type = "Run" /\ activity.distance > 0) =>
                        (item.avg_pace_per_km # Null /\ item.dividedByDistance)
                /\ ~(activity.type = "Run" /\ activity.distance > 0) =>
                        (item.avg_pace_per_km = Null /\ ~item.dividedByDistance)
                /\ (activity.type = "Run" /\ activity.distance = 5000
                        /\ activity.moving_time = 1500) =>
                            item.avg_pace_per_km = Some("5:00/km")

\* a summary of a run of 5000 m in 1500 s and a run of distance 0
C17_Witness ==
    /\ call.fn = "getRecentActivities"
    /\ Len(call.args) = 2
    /\ call.args[2].type = "Run"
    /\ call.args[2].distance = 0
    /\ call.result[1].avg_pace_per_km = Some("5:00/km")
    /\ call.result[2].avg_pace_per_km = Null

\* C18: every activity-list request the server sends asks for at most 30
\* activities per page; for get_recent_activities the page size is
\* min(count, 30), count being 10 when none is supplied.
C18_PageSizeAtMost30 ==
    \A p \in Slots : \A i \in DOMAIN inv[p].net :
        LET request == inv[p].net[i]
        IN  request.url = "/api/v3/athlete/activities" =>
                /\ request.per_page <= 30
                /\ inv[p].tool = "get_recent_activities" =>
                        request.per_page =
                            Min(IF IsDefined(inv[p].given) THEN inv[p].given[1] ELSE 10, 30)

RECURSIVE C19_Sum(_, _)
\* the sum of f over the keys
C19_Sum(f, keys) ==
    IF keys = {} THEN 0
    ELSE LET k == CHOOSE x \in keys : TRUE
         IN  f[k] + C19_Sum(f, keys \ {k})

\* x, in tenths, is num / den to one decimal
C19_OneDecimal(x, num, den) ==
    /\ 2 * (x * den - 10 * num) <= den
    /\ 2 * (10 * num - x * den) <= den

\* C19: for a non-empty activity list over a window of d days the report
\* gives per-type counts that sum to the number of activities, each the
\* number of activities of that type; an average heart rate that is the sum
\* of the reported heart rates over the number of activities that report
\* one (to the nearest bpm), or 'No HR data' when none does; and weekly
\* distance, time and activity count equal to the total times 7 over d (to
\* one decimal).  For an empty list it reports only that no activities were
\* found.
C19_TrainingLoadReport ==
    call.fn = "analyzeTrainingLoad" =>
        LET list == call.args.activities
            d == call.args.days
            all == DOMAIN list
            withHr == {i \in all : list[i].average_heartrate # Undefined}
        IN  IF list = << >>
            THEN /\ call.result.report = Null
                 /\ call.result.text =
                        "No activities found in the last " \o ToString(d) \o " days."
            ELSE LET r == call.result.report[1]
                     counts == r.activityTypes
                     sumHr == C19_Sum([i \in withHr |-> list[i].average_heartrate[1]], withHr)
                     distance == C19_Sum([i \in all |-> list[i].distance], all)
                     time == C19_Sum([i \in all |-> list[i].moving_time], all)
                 IN  /\ r.totalActivities = Len(list)
                     /\ DOMAIN counts = {list[i].type : i \in all}
                     /\ \A t \in DOMAIN counts :
                            counts[t] = Cardinality({i \in all : list[i].type = t})
                     /\ C19_Sum(counts, DOMAIN counts) = Len(list)
                     /\ (withHr = {}) => (r.averageHeartRate = "No HR data")
                     /\ (withHr # {}) =>
                            (\E bpm \in 0..250 :
                                /\ r.averageHeartRate = ToString(bpm) \o " bpm"
                                /\ 2 * (bpm * Cardinality(withHr) - sumHr)
                                        <= Cardinality(withHr)
                                /\ 2 * (sumHr - bpm * Cardinality(withHr))
                                        <= Cardinality(withHr))
                     /\ C19_OneDecimal(r.distancePerWeek, distance * 7, 1000 * d)
                     /\ C19_OneDecimal(r.timePerWeek, time * 7, 3600 * d)
                     /\ C19_OneDecimal(r.activitiesPerWeek, Len(list) * 7, d)

\* a run with no heart rate between a walk at 100 bpm and a run at 151 bpm,
\* over 7 days: two types, the average is over the two that report one
C19_Witness ==
    /\ call.fn = "analyzeTrainingLoad"
    /\ call.args.days = 7
    /\ Len(call.args.activities) = 3
    /\ call.args.activities[2].average_heartrate = Some(151)
    /\ call.args.activities[2].type = "Run"
    /\ call.args.activities[2].distance = 5000
    /\ call.result.report[1].averageHeartRate = "126 bpm"
    /\ call.result.report[1].activityTypes["Run"] = 2
    /\ call.result.report[1].distancePerWeek = 180

\* C20: for every query and top-K value a search returns exactly
\* min(K, number of stored documents) documents, K being 3 for the static
\* store and 5 for the dynamic store when none is given, each a stored
\* document taken once, in the order of non-increasing similarity to the
\* query; a search of the empty dynamic store returns the empty list.
C20_TopKBySimilarity ==
    call.fn \in {"searchSimilarDocuments", "searchEnhancedKnowledge"} =>
        LET docs == call.args.documents
            dynamic == call.fn = "searchEnhancedKnowledge"
            K == IF call.args.topK # Undefined THEN call.args.topK[1]
                 ELSE IF dynamic THEN 5 ELSE 3
            found == call.result
            similarity(id) ==
                LET text == (CHOOSE i \in DOMAIN docs : docs[i].id = id)
                    doc == docs[text].text
                IN  IF dynamic
                    THEN cosineSimilarity(getMockEmbeddingDynamic(call.args.query),
                                          getMockEmbeddingDynamic(doc))
                    ELSE cosineSimilarity(getMockEmbedding(call.args.query),
                                          getMockEmbedding(doc))
        IN  /\ Len(found) = (IF K <= Len(docs) THEN K ELSE Len(docs))
            /\ \A i \in DOMAIN found : \E j \in DOMAIN docs : docs[j].id = found[i].id
            /\ \A i, j \in DOMAIN found : i # j => found[i].id # found[j].id
            /\ \A i \in DOMAIN found : found[i].relevance_score = similarity(found[i].id)
            /\ \A i, j \in DOMAIN found :
                    i < j => AtLeast(similarity(found[i].id), similarity(found[j].id))
            /\ \A i \in DOMAIN found : \A j \in DOMAIN docs :
                    (\A k \in DOMAIN found : found[k].id # docs[j].id) =>
                        AtLeast(similarity(found[i].id), similarity(docs[j].id))
            /\ (dynamic /\ docs = << >>) => found = << >>

\* the six static documents searched for 'sleep leptin' without a top-K:
\* three documents, sleep_1 first
C20_Witness ==
    /\ call.fn = "searchSimilarDocuments"
    /\ Len(call.args.documents) = 6
    /\ call.args.query = {"sleep", "leptin"}
    /\ call.args.topK = Undefined
    /\ Len(call.result) = 3
    /\ call.result[1].id = "sleep_1"

\* the dimensions a stored text and the query of the recorded search share
C21_Shared(text) ==
    IF call.fn = "searchEnhancedKnowledge"
    THEN getMockEmbeddingDynamic(text) \cap getMockEmbeddingDynamic(call.args.query)
    ELSE getMockEmbedding(text) \cap getMockEmbedding(call.args.query)

\* C21: in a search result a document whose vector shares a set position
\* with the query's vector comes before every document that shares none
\* (and is in the result whenever such a document is); no score is NaN, and
\* a document that shares nothing with the query - in particular when its
\* vector or the query's is all zeros - has similarity exactly 0.
C21_OverlapRanksFirst ==
    call.fn \in {"searchSimilarDocuments", "searchEnhancedKnowledge"} =>
        LET docs == call.args.documents
            found == call.result
            text(id) == docs[CHOOSE i \in DOMAIN docs : docs[i].id = id].text
        IN  /\ \A i \in DOMAIN found :
                    /\ ~found[i].relevance_score.nan
                    /\ C21_Shared(text(found[i].id)) = {} <=>
                            found[i].relevance_score.dotProduct = 0
            /\ \A j \in DOMAIN found :
                    C21_Shared(text(found[j].id)) = {} =>
                        /\ \A i \in DOMAIN found :
                                C21_Shared(text(found[i].id)) # {} => i < j
                        /\ \A d \in DOMAIN docs :
                                C21_Shared(docs[d].text) # {} =>
                                    \E i \in DOMAIN found : found[i].id = docs[d].id

\* the six static documents searched for 'protein muscle' with room for all:
\* protein_1, the only document that shares a position, is first and
\* habits_1, whose vector is all zeros, is in the result with similarity 0
C21_Witness ==
    /\ call.fn = "searchSimilarDocuments"
    /\ Len(call.args.documents) = 6
    /\ call.args.query = {"muscle", "protein", "weight"}
    /\ call.args.topK = Some(10)
    /\ Len(call.result) = 6
    /\ call.result[1].id = "protein_1"
    /\ \E i \in 2..6 :
            /\ call.result[i].id = "habits_1"
            /\ call.result[i].relevance_score =
                    [dotProduct |-> 0, mag1 |-> 1, mag2 |-> 1, nan |-> FALSE]

\* C22: the dynamic store is append-only: every step leaves each stored
\* document where it was, with its id, content, metadata and vector; an add
\* that reports 1 chunk makes the store exactly one document longer, and no
\* step makes it shorter.
C22_AppendOnly ==
    [][/\ Len(documents') >= Len(documents)
       /\ SubSeq(documents', 1, Len(documents)) = documents
       /\ \A p \in Slots :
            (/\ inv'[p] # inv[p]
             /\ inv'[p].tool \in {"add_website_knowledge", "add_file_knowledge"}
             /\ inv'[p].chunks = Some(1))
                => Len(documents') = Len(documents) + 1]_vars

\* a website document of category protein was stored after a fitness one,
\* a search for protein followed, and the fitness document is still first
C22_Witness ==
    /\ Len(documents) = 3
    /\ documents[1].embedding = {0}
    /\ documents[2].embedding = {6}
    /\ documents[1].metadata.source = "website_example.com"
    /\ documents[3].metadata.source = "file_plan.pdf"
    /\ inv[1].tool = "search_knowledge"
    /\ inv[1].outcome = Return("Complete Knowledge Search: protein")

\* the refresh token an invocation's refresh request carries
C23_RefreshTokenSent(rec) == {rec.net[i].token : i \in RefreshRequests(rec)}

\* C23: two invocations that overlap and both had their probe of the cached
\* token answered 401 never both have a refresh request under way that
\* carries the same refresh token (the endpoint receives one refresh request
\* for the current refresh token), and when no invocation is under way the
\* token pair in memory is the pair the endpoint issued last.
C23_OneRefreshWhenOverlapping ==
    /\ \A p, q \in Slots :
            (/\ p # q
             /\ inv[p].pc = "refresh" /\ inv[q].pc = "refresh"
             /\ inv[p].probe # << >> /\ Is401(inv[p].probe[1])
             /\ inv[q].probe # << >> /\ Is401(inv[q].probe[1]))
                => C23_RefreshTokenSent(inv[p]) \cap C23_RefreshTokenSent(inv[q]) = {}
    /\ ((\A p \in Slots : Free(p)) /\ issued > 0) =>
            /\ accessToken = IssuedPair(issued).access_token
            /\ refreshToken = IssuedPair(issued).refresh_token

\* C24: the step in which a refresh request fails, whatever the failure,
\* leaves the access token, the refresh token, the expiry and the .env file
\* as they were, and they are as they were when the invocation called
\* getValidAccessToken: the access token is the one it found cached and the
\* refresh token is the one its refresh request carried, so the refresh
\* request of a later call carries that same refresh token.
C24_FailedRefreshKeepsTokens ==
    [][\A p \in Slots :
        (inv[p].pc = "refresh" /\ inv'[p].refresh # << >> /\ ~inv'[p].refresh[1].ok) =>
            /\ accessToken' = accessToken /\ accessToken' = inv'[p].cached
            /\ refreshToken' = refreshToken
            /\ \A i \in RefreshRequests(inv'[p]) : inv'[p].net[i].token = refreshToken'
            /\ expiresAt' = expiresAt
            /\ envFile' = envFile
            /\ issued' = issued
            /\ inv'[p].pc = "done"]_vars

\* a refresh failed after an earlier one had succeeded: the tokens in memory
\* and in the file are still the pair of the earlier refresh
C24_Witness ==
    /\ inv[1].pc = "done"
    /\ inv[1].cached = "at1"
    /\ inv[1].probe = <<HttpError(401)>>
    /\ inv[1].refresh = <<NetworkError>>
    /\ inv[1].net[2] = RefreshRequest("rt1")
    /\ accessToken = "at1" /\ refreshToken = "rt1" /\ expiresAt = 1000
    /\ envFile = File(<<ClientLine, Line("", AccessKey, "at1"), Line("", RefreshKey, "rt1")>>)

\* C25: every pace in an activity summary (a run of positive distance) reads
\* M:SS/km with SS from 00 to 59; the seconds part is never 60.
C25_SecondsBelow60 ==
    call.fn = "getRecentActivities" =>
        \A i \in DOMAIN call.result :
            call.result[i].avg_pace_per_km # Null =>
                \E m \in 0..99, ss \in 0..59 :
                    call.result[i].avg_pace_per_km =
                        Some(ToString(m) \o ":" \o PadStart2(ss) \o "/km")

\* C26: an add_website_knowledge call whose URL does not parse stores no
\* document and is answered with the 'Failed to add website knowledge'
\* response, never with the response of a successful addition.
C26_BadUrlReportedAsFailure ==
    [][\A p \in Slots :
        (/\ inv'[p] # inv[p]
         /\ inv'[p].tool = "add_website_knowledge"
         /\ inv'[p].given # Undefined
         /\ ~inv'[p].given[1].parses)
            => /\ documents' = documents
               /\ inv'[p].outcome =
                    Return("Failed to add website knowledge Error: Invalid URL")]_vars

\* C27: every name of the tool catalog has a case in the dispatcher; an
\* invocation that has ended was answered 'Unknown tool: <name>' exactly
\* when its name is not in the catalog.
C27_CatalogIsHandled ==
    /\ CatalogNames \subseteq StravaTools \cup CoachTools
    /\ \A p \in Slots :
            inv[p].pc = "done" =>
                /\ inv[p].outcome = Throw("Unknown tool: " \o inv[p].tool)
                        <=> inv[p].tool \notin CatalogNames
                /\ inv[p].response = TextResponse("Error: Unknown tool: " \o inv[p].tool)
                        <=> inv[p].tool \notin CatalogNames

\* get_rag_stats, the last tool of the catalog, was called and answered with
\* its statistics
C27_Witness ==
    /\ inv[1].pc = "done"
    /\ inv[1].tool = "get_rag_stats"
    /\ inv[1].outcome = Return("Complete RAG System Analytics: Added documents: 1")

\* the rule of the coach's decision tree that fires for an assessment
C28_Rule(assessment) ==
    CASE assessment = GreatProgress -> 1
      [] assessment = Stalled -> 2
      [] assessment = TooFast -> 3
      [] assessment = LowAdherence -> 4
      [] assessment = CaloriesTooHigh -> 5
      [] OTHER -> 6

\* C28: for every window, the situation get_coaching_advice chooses agrees
\* with the decision tree given the window's weekly weight change and its
\* adherence (workouts per day), whatever the average calories: plateau
\* exactly for rule 2, rapid weight loss exactly for rule 3, low adherence
\* exactly for rule 4, steady progress exactly for rules 1, 5 and 6.
C28_SituationAgreesWithTree ==
    call.fn = "getCoachingAdvice" =>
        LET a == call.result.analysis
            \* (weightChange / days) * 7 in tenths of a pound; the windows are
            \* chosen so that it is a whole number of tenths
            weekly == (70 * a.weightChange) \div a.days
        IN  /\ (70 * a.weightChange) % a.days = 0
            /\ \A k \in AverageCalories :
                LET rule == C28_Rule(assessProgress(CoachedProfile,
                                RecentProgress(weekly, a.totalWorkouts, a.days, k)))
                IN  /\ call.result.situation = "plateau_with_exercise_adherence"
                            <=> rule = 2
                    /\ call.result.situation = "rapid_weight_loss" <=> rule = 3
                    /\ call.result.situation = "low_adherence" <=> rule = 4
                    /\ call.result.situation = "steady_progress" <=> rule \in {1, 5, 6}

\* 14 days, 6 lb lost (3.0 lb a week) and 6 workouts (adherence 0.43): both
\* the rapid-loss and the low-adherence conditions hold, and both the tool
\* and the tree take the rapid loss
C28_Witness ==
    /\ call.fn = "getCoachingAdvice"
    /\ call.result.analysis = [days |-> 14, weightChange |-> -6, totalWorkouts |-> 6]
    /\ call.result.situation = "rapid_weight_loss"
    /\ assessProgress(CoachedProfile, RecentProgress(-30, 6, 14, Undefined)) = TooFast

\* C29: get_coaching_advice chooses 'steady progress ... lbs per week loss'
\* only for a window whose weekly weight change is negative.
C29_SteadyOnlyWhenLosing ==
    (call.fn = "getCoachingAdvice" /\ call.result.situation = "steady_progress") =>
        call.result.analysis.weightChange < 0

\* C30: no two documents of the dynamic store have the same id, also when
\* two additions fall in the same millisecond of the clock.
C30_UniqueIds ==
    \A i, j \in DOMAIN documents :
        i # j => documents[i].id # documents[j].id

====
